---- MODULE Spec2Model ----
(***************************************************************************)
(* Verification model of the xiao_sense firmware: the camera capture       *)
(* controller (all revisions of camera_interface.c kept in the tree), the  *)
(* upload scheduler (upload_manager.c), the background model and the box   *)
(* pipeline of motion_detector.c.                                          *)
(*                                                                         *)
(* One module, several specifications over the same variables:             *)
(*   SpecCam     camera worker task(s), camera lock, sensor mode           *)
(*   SpecUpload  upload_task and its public entry points                   *)
(*   SpecBackoff upload_task in real-time mode, long runs of failed passes *)
(*   SpecBg      detect_motion / background model warm-up                  *)
(*   SpecMerge   filter_and_merge_boxes as a pure function                 *)
(*   SpecBlock   detect_motion on 4x4 frames                               *)
(*   SpecEdge    filter_edge_touching_boxes as a pure function             *)
(*   SpecTrigger upload_task under fair scheduling                         *)
(*   SpecQueue   create_data_log_queue on every WiFi connect               *)
(*   SpecInterval upload_task on long intervals, fair scheduling and clock *)
(*   SpecRadio   upload_task and file_upload_task sharing the radio        *)
(*   SpecFilter  the filter stage of detect_motion on large boxes          *)
(*   SpecLabel   the component labelling of detect_motion                  *)
(***************************************************************************)
EXTENDS Integers, Sequences, FiniteSets, TLC

(***************************************************************************)
(* Bounds of the model (not program constants).                            *)
(***************************************************************************)
MaxTasks == 2
MaxInits == 2

(***************************************************************************)
(* State.                                                                  *)
(***************************************************************************)
VARIABLES
    \* ---- camera controller -------------------------------------------
    variant,              \* which revision of camera_interface.c is built
    cam_mux,              \* the global lock handle: 0 = NULL, else a mutex id
    holder,               \* mutex id -> task holding it (0 = free)
    hw,                   \* sensor mode programmed into the driver
    task,                 \* task id -> locals of the camera worker task
    n_tasks,              \* camera worker tasks created so far
    wifi_connected,       \* wifi_interface: static bool wifi_connected
    upload_task_started,  \* main: static bool upload_task_started
    hw_unlocked,          \* history: a driver call was made without the lock
    panic,                \* configASSERT fired (give of a mutex held by another task)
    \* ---- upload scheduler (upload_manager.c) --------------------------
    now,                  \* wall clock in seconds (xTaskGetTickCount, in seconds)
    um,                   \* static upload_manager_t upload_manager
    config_mutex,         \* who holds upload_manager.config_mutex
    event_bits,           \* bits set in upload_manager.event_group
    ut,                   \* locals and program point of upload_task
    upload_queue,         \* requests waiting in file_upload's upload_queue
    radio,                \* wifi_interface: the WiFi driver's power state
    last_call,            \* history: the last public call and what it did
    hist,                 \* history: what has happened since initialisation
    fu,                   \* locals and program point of file_upload_task
    \* ---- motion detector (motion_detector.c) --------------------------
    bg_model,             \* BackgroundModel bg_model
    frame_counter,        \* static int frame_counter
    sensor_data_queue,    \* sdcard_interface: records waiting in sensor_data_queue
    det,                  \* history: the last detector call and what it did
    \* ---- box merging as a function -----------------------------------
    merge                 \* the list given to filter_and_merge_boxes, and its result;
                          \* the changed pixels given to the labelling, and its fills

camVars == <<variant, cam_mux, holder, hw, task, n_tasks, wifi_connected,
             upload_task_started, hw_unlocked, panic>>

\* the camera variables the upload scheduler never touches
camRest == <<variant, cam_mux, holder, hw, task, n_tasks, upload_task_started,
             hw_unlocked, panic>>

upVars == <<now, um, config_mutex, event_bits, ut, upload_queue, radio, last_call,
           hist>>

detVars == <<bg_model, frame_counter, sensor_data_queue, det>>

vars == <<camVars, upVars, fu, detVars, merge>>

\* everything outside the camera controller / outside the upload scheduler
notCam == <<upVars, fu, detVars, merge>>
notUp == <<fu, detVars, merge>>
notDet == <<camVars, upVars, fu, merge>>
notMerge == <<camVars, upVars, fu, detVars>>

(***************************************************************************)
(* Camera controller.                                                      *)
(***************************************************************************)
Tasks == 1..MaxTasks
Muxes == 1..MaxInits
Variants == {"A", "B", "P12", "P14"}

\* sensor modes: "none" = driver not initialised
LowFormats == {"low", "low_qq"}
HighFormats == {"high", "high_q"}

NoTask == [pc |-> "none", frame |-> "null", pic |-> "null", scan |-> "none",
           ri_cfg |-> "none", ri_try |-> 0, ri_wait |-> 0, rc |-> "none",
           file |-> "none",
           notified |-> FALSE, ret_cnt |-> 0, rel |-> "n/a", refused |-> FALSE,
           reset |-> FALSE,
           bad_give |-> FALSE]

\* the first instruction of the worker task of each revision
TaskEntry(v) == CASE v = "A" -> "A_scan"
                  [] v = "B" -> "B_scan"
                  [] v = "P12" -> "P12_take"
                  [] v = "P14" -> "P14_take"

CamIdle ==
    /\ cam_mux = 0
    /\ holder = [m \in Muxes |-> 0]
    /\ hw = "none"
    /\ task = [t \in Tasks |-> NoTask]
    /\ n_tasks = 0
    /\ wifi_connected = FALSE
    /\ upload_task_started = FALSE
    /\ hw_unlocked = FALSE
    /\ panic = FALSE

Holds(t) == {m \in Muxes : holder[m] = t}
Locked(t) == cam_mux # 0 /\ holder[cam_mux] = t
Running(t) == ~panic /\ task[t].pc # "none"

\* xSemaphoreTake(cam_mux, ...) succeeding for task t
Take(t) == [holder EXCEPT ![cam_mux] = t]

\* xSemaphoreGive(cam_mux) by task t.  Giving a free mutex fails and changes
\* nothing.  Giving a mutex another task holds is not checked by the kernel
\* call itself: it releases the mutex, or configASSERT stops the system.
GiveOutcomes(t) ==
    IF holder[cam_mux] = t THEN {[h |-> [holder EXCEPT ![cam_mux] = 0], p |-> FALSE]}
    ELSE IF holder[cam_mux] = 0 THEN {[h |-> holder, p |-> FALSE]}
    ELSE {[h |-> [holder EXCEPT ![cam_mux] = 0], p |-> FALSE], [h |-> holder, p |-> TRUE]}

\* esp_camera_fb_get(): NULL when the driver is not initialised, else either
FbGet(h) == IF h = "none" THEN {FALSE} ELSE BOOLEAN
FbGetOutcomes == FbGet(hw)

\* a driver call by task t: remembered when made without the camera lock
HwOp(t) == hw_unlocked' = (hw_unlocked \/ ~Locked(t))

\* task fields refused / reset: the switch back to the scanning mode was
\* refused / esp_camera_deinit and a fresh init were run after that refusal

\* start of the next loop iteration: per-iteration history is cleared
NextIter(t, entry) == [NoTask EXCEPT !.pc = entry]

(* ---- revision A: camera_interface.c lines 1..425 ---------------------- *)

\* camera_manager_motion_loop, up to the non-blocking xSemaphoreTake
A_scan(t) ==
    /\ Running(t) /\ task[t].pc = "A_scan"
    /\ UNCHANGED notCam
    /\ IF holder[cam_mux] # 0
       THEN /\ task' = [task EXCEPT ![t].pc = "A_delay", ![t].scan = "busy"]
            /\ UNCHANGED holder
       ELSE /\ holder' = Take(t)
            /\ task' = [task EXCEPT ![t].pc = "A_grab"]
    /\ UNCHANGED <<variant, cam_mux, hw, n_tasks, wifi_connected,
                   upload_task_started, hw_unlocked, panic>>

\* camera_manager_motion_loop after the take: fb_get, the two buffer
\* allocations, detect_motion, and the release on every "no motion" path
A_grab(t) ==
    /\ Running(t) /\ task[t].pc = "A_grab"
    /\ UNCHANGED notCam
    /\ HwOp(t)
    /\ \E got \in FbGetOutcomes, o \in {"oom", "nohit", "hit"} :
         IF got /\ o = "hit"
         THEN /\ task' = [task EXCEPT ![t].pc = "A_capture", ![t].scan = "hit",
                                      ![t].frame = "borrowed"]
              /\ UNCHANGED <<holder, panic>>
         ELSE /\ \E g \in GiveOutcomes(t) : holder' = g.h /\ panic' = g.p
              /\ task' = [task EXCEPT ![t].pc = "A_delay",
                                      ![t].scan = IF got THEN o ELSE "nofb",
                                      ![t].frame = IF got THEN "returned" ELSE "null",
                                      ![t].ret_cnt = IF got THEN 1 ELSE 0]
    /\ UNCHANGED <<variant, cam_mux, hw, n_tasks, wifi_connected, upload_task_started>>

\* camera_manager_capture(fb, ts) of revision A: JPEG conversion and file write
A_capture(t) ==
    /\ Running(t) /\ task[t].pc = "A_capture"
    /\ UNCHANGED notCam
    /\ \E o \in {"jpg_fail", "open_fail", "write_fail", "ok"} :
         task' = [task EXCEPT ![t].pc = "A_release",
                    ![t].rc = IF o = "ok" THEN "OK" ELSE "FAIL",
                    ![t].file = CASE o = "ok" -> "complete"
                                  [] o = "write_fail" -> "removed"
                                  [] OTHER -> "none",
                    ![t].notified = (o = "ok")]
    /\ UNCHANGED <<variant, cam_mux, holder, hw, n_tasks, wifi_connected,
                   upload_task_started, hw_unlocked, panic>>

\* camera_worker_task of revision A after the capture: return frame, give lock
A_release(t) ==
    /\ Running(t) /\ task[t].pc = "A_release"
    /\ UNCHANGED notCam
    /\ \E g \in GiveOutcomes(t) : holder' = g.h /\ panic' = g.p
    /\ task' = [task EXCEPT ![t].pc = "A_delay",
                  ![t].frame = "returned",
                  ![t].ret_cnt = @ + 1,
                  ![t].bad_give = ~Locked(t)]
    /\ UNCHANGED <<variant, cam_mux, hw, n_tasks, wifi_connected,
                   upload_task_started, hw_unlocked>>

\* vTaskDelay at the bottom of the loop
A_delay(t) ==
    /\ Running(t) /\ task[t].pc = "A_delay"
    /\ UNCHANGED notCam
    /\ task' = [task EXCEPT ![t] = NextIter(t, "A_scan")]
    /\ UNCHANGED <<variant, cam_mux, holder, hw, n_tasks, wifi_connected,
                   upload_task_started, hw_unlocked, panic>>

camera_worker_task_A(t) ==
    A_scan(t) \/ A_grab(t) \/ A_capture(t) \/ A_release(t) \/ A_delay(t)

(* ---- revision B: camera_interface.c lines 448..786 -------------------- *)

\* the sensor mode a configuration programs
ModeOf(cfg) == IF cfg = "cfg_high" THEN "high" ELSE "low"

\* retries of reinit_camera before its final attempt
REINIT_RETRIES == 3

\* camera_manager_motion_loop with a take that waits for the lock
B_scan_blocking(t) ==
    /\ Running(t) /\ task[t].pc = "B_scan"
    /\ UNCHANGED notCam
    /\ holder[cam_mux] = 0
    /\ holder' = Take(t)
    /\ task' = [task EXCEPT ![t].pc = "B_grab"]
    /\ UNCHANGED <<variant, cam_mux, hw, n_tasks, wifi_connected,
                   upload_task_started, hw_unlocked, panic>>

\* camera_manager_motion_loop of revision B up to the non-blocking take
B_scan(t) ==
    /\ Running(t) /\ task[t].pc = "B_scan"
    /\ UNCHANGED notCam
    /\ IF holder[cam_mux] # 0
       THEN /\ task' = [task EXCEPT ![t].pc = "B_delay", ![t].scan = "busy"]
            /\ UNCHANGED holder
       ELSE /\ holder' = Take(t)
            /\ task' = [task EXCEPT ![t].pc = "B_grab"]
    /\ UNCHANGED <<variant, cam_mux, hw, n_tasks, wifi_connected,
                   upload_task_started, hw_unlocked, panic>>

\* camera_manager_motion_loop of revision B after the take: the frame is
\* always returned and the lock always given; the hit goes to the caller
B_grab(t) ==
    /\ Running(t) /\ task[t].pc = "B_grab"
    /\ UNCHANGED notCam
    /\ HwOp(t)
    /\ \E g \in GiveOutcomes(t) : holder' = g.h /\ panic' = g.p
    /\ \E got \in FbGetOutcomes, hit \in BOOLEAN :
         task' = [task EXCEPT
                    ![t].pc = IF got /\ hit THEN "B_cap_take" ELSE "B_delay",
                    ![t].scan = IF ~got THEN "nofb" ELSE IF hit THEN "hit" ELSE "nohit",
                    ![t].frame = IF got THEN "returned" ELSE "null",
                    ![t].ret_cnt = IF got THEN 1 ELSE 0]
    /\ UNCHANGED <<variant, cam_mux, hw, n_tasks, wifi_connected, upload_task_started>>

\* camera_manager_capture: xSemaphoreTake(cam_mux, portMAX_DELAY)
B_cap_take(t) ==
    /\ Running(t) /\ task[t].pc = "B_cap_take"
    /\ UNCHANGED notCam
    /\ holder[cam_mux] = 0
    /\ holder' = Take(t)
    /\ task' = [task EXCEPT ![t].pc = "B_reinit", ![t].ri_cfg = "cfg_high",
                            ![t].ri_try = 0]
    /\ UNCHANGED <<variant, cam_mux, hw, n_tasks, wifi_connected,
                   upload_task_started, hw_unlocked, panic>>

\* a variant of reinit_camera that retries until the driver accepts
B_reinit_until_ok(t) ==
    /\ Running(t) /\ task[t].pc = "B_reinit"
    /\ UNCHANGED notCam
    /\ HwOp(t)
    /\ \E ok \in BOOLEAN :
         IF ok
         THEN /\ hw' = ModeOf(task[t].ri_cfg)
              /\ task' = [task EXCEPT
                    ![t].pc = IF task[t].ri_cfg = "cfg_high" THEN "B_grab_hi" ELSE "B_give",
                    ![t].ri_try = 0, ![t].ri_wait = 0]
         ELSE /\ hw' = "none"
              /\ task' = [task EXCEPT ![t].ri_try = @ + 1,
                                      ![t].ri_wait = 100 * (task[t].ri_try + 1)]
    /\ UNCHANGED <<variant, cam_mux, holder, n_tasks, wifi_connected,
                   upload_task_started, panic>>

\* reinit_camera(cfg): one deinit + init attempt per step; attempts
\* 0..REINIT_RETRIES-1 are the retry loop, each followed by
\* vTaskDelay(100 * (retry + 1)) ms; attempt REINIT_RETRIES is the final one
B_reinit(t) ==
    /\ Running(t) /\ task[t].pc = "B_reinit"
    /\ UNCHANGED notCam
    /\ HwOp(t)
    /\ \E ok \in BOOLEAN :
         IF ok
         THEN /\ hw' = ModeOf(task[t].ri_cfg)
              /\ task' = [task EXCEPT
                    ![t].pc = IF task[t].ri_cfg = "cfg_high" THEN "B_grab_hi" ELSE "B_give",
                    ![t].ri_try = 0, ![t].ri_wait = 0]
         ELSE /\ hw' = "none"
              /\ IF task[t].ri_try < REINIT_RETRIES
                 THEN task' = [task EXCEPT ![t].ri_try = @ + 1,
                                           ![t].ri_wait = 100 * (task[t].ri_try + 1)]
                 ELSE task' = [task EXCEPT
                        ![t].pc = IF task[t].ri_cfg = "cfg_high" THEN "B_cleanup" ELSE "B_give",
                        ![t].rc = IF task[t].ri_cfg = "cfg_high" THEN "FAIL" ELSE @,
                        ![t].refused = (task[t].ri_cfg = "cfg_low") \/ @,
                        ![t].reset = (task[t].ri_cfg = "cfg_low") \/ @,
                        ![t].ri_try = 0, ![t].ri_wait = 0]
    /\ UNCHANGED <<variant, cam_mux, holder, n_tasks, wifi_connected,
                   upload_task_started, panic>>

\* camera_manager_capture steps 3..5: grab, open, write, close, notify
B_grab_hi(t) ==
    /\ Running(t) /\ task[t].pc = "B_grab_hi"
    /\ UNCHANGED notCam
    /\ HwOp(t)
    /\ \E got \in FbGetOutcomes, o \in {"open_fail", "write_fail", "ok"} :
         task' = [task EXCEPT
                    ![t].pc = "B_cleanup",
                    ![t].pic = IF got THEN "borrowed" ELSE "null",
                    ![t].rc = IF ~got THEN "NO_MEM"
                              ELSE CASE o = "open_fail" -> "NOT_FOUND"
                                     [] o = "write_fail" -> "FAIL"
                                     [] OTHER -> "OK",
                    ![t].file = IF ~got \/ o = "open_fail" THEN "none"
                                ELSE IF o = "write_fail" THEN "open" ELSE "complete",
                    ![t].notified = got /\ o = "ok"]
    /\ UNCHANGED <<variant, cam_mux, holder, hw, n_tasks, wifi_connected,
                   upload_task_started, panic>>

\* camera_manager_capture cleanup up to the call of reinit_camera(&cfg_low)
B_cleanup(t) ==
    /\ Running(t) /\ task[t].pc = "B_cleanup"
    /\ UNCHANGED notCam
    /\ task' = [task EXCEPT
                  ![t].pc = "B_reinit", ![t].ri_cfg = "cfg_low", ![t].ri_try = 0,
                  ![t].file = IF @ = "open" THEN "removed" ELSE @,
                  ![t].pic = IF @ = "borrowed" THEN "returned" ELSE @]
    /\ UNCHANGED <<variant, cam_mux, holder, hw, n_tasks, wifi_connected,
                   upload_task_started, hw_unlocked, panic>>

\* camera_manager_capture: xSemaphoreGive(cam_mux) and return
B_give(t) ==
    /\ Running(t) /\ task[t].pc = "B_give"
    /\ UNCHANGED notCam
    /\ \E g \in GiveOutcomes(t) : holder' = g.h /\ panic' = g.p
    /\ task' = [task EXCEPT ![t].pc = "B_delay", ![t].rel = hw,
                            ![t].bad_give = ~Locked(t)]
    /\ UNCHANGED <<variant, cam_mux, hw, n_tasks, wifi_connected,
                   upload_task_started, hw_unlocked>>

\* camera_worker_task of revision B: the delays at the bottom of the loop
B_delay(t) ==
    /\ Running(t) /\ task[t].pc = "B_delay"
    /\ UNCHANGED notCam
    /\ task' = [task EXCEPT ![t] = NextIter(t, "B_scan")]
    /\ UNCHANGED <<variant, cam_mux, holder, hw, n_tasks, wifi_connected,
                   upload_task_started, hw_unlocked, panic>>

camera_worker_task_B(t) ==
    \/ B_scan(t) \/ B_grab(t) \/ B_cap_take(t) \/ B_reinit(t)
    \/ B_grab_hi(t) \/ B_cleanup(t) \/ B_give(t) \/ B_delay(t)

(* ---- revision P12: takeHighResPhoto with fallbacks -------------------- *)

\* the mode the last fallback of switch_camera_mode programs
Reduced(target) == IF target = "high" THEN "high_q" ELSE "low_qq"

\* switch_camera_mode(config) of P12 from mode cur: deinit refused (nothing
\* changes), init accepted at once or with one buffer, init accepted with the
\* smaller frame size, or every init refused
SwitchOutcomes(cur, target) ==
    { [rc |-> "FAIL", hw |-> cur],
      [rc |-> "OK", hw |-> target],
      [rc |-> "OK", hw |-> Reduced(target)],
      [rc |-> "FAIL", hw |-> "none"] }

\* initialize_camera() of P12: QVGA, else QQVGA, else the driver stays down
InitOutcomes12 == {"low", "low_qq", "none"}

\* motion_detection_task: xSemaphoreTake(camera_semaphore, portMAX_DELAY)
P12_take(t) ==
    /\ Running(t) /\ task[t].pc = "P12_take"
    /\ UNCHANGED notCam
    /\ holder[cam_mux] = 0
    /\ holder' = Take(t)
    /\ task' = [task EXCEPT ![t].pc = "P12_grab"]
    /\ UNCHANGED <<variant, cam_mux, hw, n_tasks, wifi_connected,
                   upload_task_started, hw_unlocked, panic>>

\* motion_detection_task: fb_get, detect_motion, fb_return, give
P12_grab(t) ==
    /\ Running(t) /\ task[t].pc = "P12_grab"
    /\ UNCHANGED notCam
    /\ HwOp(t)
    /\ \E g \in GiveOutcomes(t) : holder' = g.h /\ panic' = g.p
    /\ \E got \in FbGetOutcomes, hit \in BOOLEAN :
         task' = [task EXCEPT
                    ![t].pc = IF got /\ hit THEN "P12_hi_take" ELSE "P12_delay",
                    ![t].scan = IF ~got THEN "nofb" ELSE IF hit THEN "hit" ELSE "nohit",
                    ![t].frame = IF got THEN "returned" ELSE "null",
                    ![t].ret_cnt = IF got THEN 1 ELSE 0]
    /\ UNCHANGED <<variant, cam_mux, hw, n_tasks, wifi_connected, upload_task_started>>

\* takeHighResPhoto: xSemaphoreTake(camera_semaphore, portMAX_DELAY)
P12_hi_take(t) ==
    /\ Running(t) /\ task[t].pc = "P12_hi_take"
    /\ UNCHANGED notCam
    /\ holder[cam_mux] = 0
    /\ holder' = Take(t)
    /\ task' = [task EXCEPT ![t].pc = "P12_hi_switch"]
    /\ UNCHANGED <<variant, cam_mux, hw, n_tasks, wifi_connected,
                   upload_task_started, hw_unlocked, panic>>

\* takeHighResPhoto: switch to SXGA, on failure to XGA, on a second failure
\* give the semaphore and return ESP_FAIL
P12_hi_switch(t) ==
    /\ Running(t) /\ task[t].pc = "P12_hi_switch"
    /\ UNCHANGED notCam
    /\ HwOp(t)
    /\ \E o1 \in SwitchOutcomes(hw, "high") :
         IF o1.rc = "OK"
         THEN /\ hw' = o1.hw
              /\ task' = [task EXCEPT ![t].pc = "P12_hi_grab"]
              /\ UNCHANGED <<holder, panic>>
         ELSE \E o2 \in SwitchOutcomes(o1.hw, "high") :
                /\ hw' = o2.hw
                /\ IF o2.rc = "OK"
                   THEN /\ task' = [task EXCEPT ![t].pc = "P12_hi_grab"]
                        /\ UNCHANGED <<holder, panic>>
                   ELSE /\ \E g \in GiveOutcomes(t) : holder' = g.h /\ panic' = g.p
                        /\ task' = [task EXCEPT ![t].pc = "P12_delay",
                                      ![t].rc = "FAIL", ![t].rel = o2.hw,
                                      ![t].bad_give = ~Locked(t)]
    /\ UNCHANGED <<variant, cam_mux, n_tasks, wifi_connected, upload_task_started>>

\* takeHighResPhoto: fb_get, fopen, fwrite, fclose, notify, fb_return
P12_hi_grab(t) ==
    /\ Running(t) /\ task[t].pc = "P12_hi_grab"
    /\ UNCHANGED notCam
    /\ HwOp(t)
    /\ \E got \in FbGetOutcomes, o \in {"open_fail", "write_fail", "notify_fail", "ok"} :
         task' = [task EXCEPT
                    ![t].pc = "P12_restore",
                    ![t].pic = IF got THEN "returned" ELSE "null",
                    ![t].rc = IF got /\ o = "ok" THEN "OK" ELSE "FAIL",
                    ![t].file = IF ~got \/ o = "open_fail" THEN "none"
                                ELSE IF o = "write_fail" THEN "partial" ELSE "complete",
                    ![t].notified = got /\ o \in {"ok", "notify_fail"}]
    /\ UNCHANGED <<variant, cam_mux, holder, hw, n_tasks, wifi_connected,
                   upload_task_started, panic>>

\* takeHighResPhoto from exit_no_pic: switch back to the motion mode; when
\* that fails deinit and initialize_camera(), which installs a new
\* camera_semaphore; then give camera_semaphore
P12_restore(t) ==
    /\ Running(t) /\ task[t].pc = "P12_restore"
    /\ UNCHANGED notCam
    /\ HwOp(t)
    /\ \E o \in SwitchOutcomes(hw, "low") :
         IF o.rc = "OK"
         THEN /\ hw' = o.hw
              /\ \E g \in GiveOutcomes(t) : holder' = g.h /\ panic' = g.p
              /\ task' = [task EXCEPT ![t].pc = "P12_delay", ![t].rel = o.hw,
                                      ![t].bad_give = ~Locked(t)]
              /\ UNCHANGED cam_mux
         ELSE /\ cam_mux < MaxInits
              /\ cam_mux' = cam_mux + 1
              /\ \E h \in InitOutcomes12 :
                   /\ hw' = h
                   /\ task' = [task EXCEPT ![t].pc = "P12_delay", ![t].rel = h,
                                           ![t].refused = TRUE, ![t].reset = TRUE,
                                           ![t].bad_give = TRUE]
              /\ UNCHANGED <<holder, panic>>
    /\ UNCHANGED <<variant, n_tasks, wifi_connected, upload_task_started>>

\* motion_detection_task: the delay that ends an iteration
P12_delay(t) ==
    /\ Running(t) /\ task[t].pc = "P12_delay"
    /\ UNCHANGED notCam
    /\ task' = [task EXCEPT ![t] = NextIter(t, "P12_take")]
    /\ UNCHANGED <<variant, cam_mux, holder, hw, n_tasks, wifi_connected,
                   upload_task_started, hw_unlocked, panic>>

motion_detection_task_P12(t) ==
    \/ P12_take(t) \/ P12_grab(t) \/ P12_hi_take(t) \/ P12_hi_switch(t)
    \/ P12_hi_grab(t) \/ P12_restore(t) \/ P12_delay(t)

(* ---- revision P14: the first takeHighResPhoto ------------------------- *)

\* switch_camera_mode(config, size, format) of P14 from mode cur
SwitchOutcomes14(cur, target) ==
    { [rc |-> "FAIL", hw |-> cur],
      [rc |-> "OK", hw |-> target],
      [rc |-> "FAIL", hw |-> "none"] }

\* motion_detection_task: xSemaphoreTake(camera_semaphore, portMAX_DELAY)
P14_take(t) ==
    /\ Running(t) /\ task[t].pc = "P14_take"
    /\ UNCHANGED notCam
    /\ holder[cam_mux] = 0
    /\ holder' = Take(t)
    /\ task' = [task EXCEPT ![t].pc = "P14_grab"]
    /\ UNCHANGED <<variant, cam_mux, hw, n_tasks, wifi_connected,
                   upload_task_started, hw_unlocked, panic>>

\* motion_detection_task: fb_get, detect_motion; on motion return the frame
\* and give the semaphore before takeHighResPhoto; without motion return the
\* frame (line 240) and give (line 242)
P14_grab(t) ==
    /\ Running(t) /\ task[t].pc = "P14_grab"
    /\ UNCHANGED notCam
    /\ HwOp(t)
    /\ \E g \in GiveOutcomes(t) : holder' = g.h /\ panic' = g.p
    /\ \E got \in FbGetOutcomes, hit \in BOOLEAN :
         task' = [task EXCEPT
                    ![t].pc = IF got /\ hit THEN "P14_hi_take" ELSE "P14_end",
                    ![t].scan = IF ~got THEN "nofb" ELSE IF hit THEN "hit" ELSE "nohit",
                    ![t].frame = IF got THEN "returned" ELSE "null",
                    ![t].ret_cnt = IF got THEN 1 ELSE 0]
    /\ UNCHANGED <<variant, cam_mux, hw, n_tasks, wifi_connected, upload_task_started>>

\* takeHighResPhoto: xSemaphoreTake(camera_semaphore, portMAX_DELAY)
P14_hi_take(t) ==
    /\ Running(t) /\ task[t].pc = "P14_hi_take"
    /\ UNCHANGED notCam
    /\ holder[cam_mux] = 0
    /\ holder' = Take(t)
    /\ task' = [task EXCEPT ![t].pc = "P14_hi"]
    /\ UNCHANGED <<variant, cam_mux, hw, n_tasks, wifi_connected,
                   upload_task_started, hw_unlocked, panic>>

\* takeHighResPhoto: switch to SXGA/JPEG (result ignored), fb_get, save,
\* fb_return(pic)
P14_hi(t) ==
    /\ Running(t) /\ task[t].pc = "P14_hi"
    /\ UNCHANGED notCam
    /\ HwOp(t)
    /\ \E o \in SwitchOutcomes14(hw, "high") :
         /\ hw' = o.hw
         /\ \E got \in FbGet(o.hw), saved \in BOOLEAN :
              task' = [task EXCEPT
                         ![t].pc = "P14_restore",
                         ![t].pic = IF got THEN "returned" ELSE "null",
                         ![t].rc = IF got /\ saved THEN "OK" ELSE "FAIL",
                         ![t].file = IF got /\ saved THEN "complete" ELSE "none"]
    /\ UNCHANGED <<variant, cam_mux, holder, n_tasks, wifi_connected,
                   upload_task_started, panic>>

\* takeHighResPhoto after exit: switch back to QVGA/GRAYSCALE (result
\* ignored), initialize_background_model, give
P14_restore(t) ==
    /\ Running(t) /\ task[t].pc = "P14_restore"
    /\ UNCHANGED notCam
    /\ HwOp(t)
    /\ \E g \in GiveOutcomes(t) : holder' = g.h /\ panic' = g.p
    /\ \E o \in SwitchOutcomes14(hw, "low") :
         /\ hw' = o.hw
         /\ task' = [task EXCEPT ![t].pc = "P14_retake", ![t].rel = o.hw,
                                 ![t].refused = (o.rc # "OK"),
                                 ![t].bad_give = ~Locked(t)]
    /\ UNCHANGED <<variant, cam_mux, n_tasks, wifi_connected, upload_task_started>>

\* motion_detection_task line 235: take the semaphore again
P14_retake(t) ==
    /\ Running(t) /\ task[t].pc = "P14_retake"
    /\ UNCHANGED notCam
    /\ holder[cam_mux] = 0
    /\ holder' = Take(t)
    /\ task' = [task EXCEPT ![t].pc = "P14_ret2"]
    /\ UNCHANGED <<variant, cam_mux, hw, n_tasks, wifi_connected,
                   upload_task_started, hw_unlocked, panic>>

\* motion_detection_task lines 240..242 after a capture: esp_camera_fb_return
\* of the frame already returned at line 232, then give
P14_ret2(t) ==
    /\ Running(t) /\ task[t].pc = "P14_ret2"
    /\ UNCHANGED notCam
    /\ \E g \in GiveOutcomes(t) : holder' = g.h /\ panic' = g.p
    /\ task' = [task EXCEPT ![t].pc = "P14_end", ![t].ret_cnt = @ + 1]
    /\ UNCHANGED <<variant, cam_mux, hw, n_tasks, wifi_connected,
                   upload_task_started, hw_unlocked>>

\* motion_detection_task: back to the top of while (1)
P14_end(t) ==
    /\ Running(t) /\ task[t].pc = "P14_end"
    /\ UNCHANGED notCam
    /\ task' = [task EXCEPT ![t] = NextIter(t, "P14_take")]
    /\ UNCHANGED <<variant, cam_mux, holder, hw, n_tasks, wifi_connected,
                   upload_task_started, hw_unlocked, panic>>

motion_detection_task_P14(t) ==
    \/ P14_take(t) \/ P14_grab(t) \/ P14_hi_take(t) \/ P14_hi(t)
    \/ P14_restore(t) \/ P14_retake(t) \/ P14_ret2(t) \/ P14_end(t)

(* ---- start-up and Wi-Fi status callback ------------------------------- *)

\* app_main of the builds with one start-up path (P12, P14):
\* initialize_camera() then createCameraTask()
app_main ==
    /\ variant \in {"P12", "P14"} /\ cam_mux = 0
    /\ UNCHANGED notCam
    /\ cam_mux' = 1
    /\ hw' \in (IF variant = "P12" THEN InitOutcomes12 ELSE {"low", "none"})
    /\ n_tasks' = 1
    /\ task' = [task EXCEPT ![1] = NextIter(1, TaskEntry(variant))]
    /\ UNCHANGED <<variant, holder, wifi_connected, upload_task_started,
                   hw_unlocked, panic>>

\* update_wifi_status(true) -> on_wifi_status_change(true): the first call
\* and every call after a disconnect runs initialize_camera()
\* (camera_manager_init: new cam_mux, driver init) and createCameraTask()
on_wifi_connected ==
    /\ variant \in {"A", "B"} /\ ~panic
    /\ UNCHANGED notCam
    /\ ~wifi_connected
    /\ wifi_connected' = TRUE
    /\ IF ~upload_task_started
       THEN /\ cam_mux < MaxInits /\ n_tasks < MaxTasks
            /\ cam_mux' = cam_mux + 1
            /\ hw' \in {"low", "none"}
            /\ hw_unlocked' = (hw_unlocked \/ n_tasks > 0)
            /\ n_tasks' = n_tasks + 1
            /\ task' = [task EXCEPT ![n_tasks + 1] = NextIter(n_tasks + 1, TaskEntry(variant))]
            /\ upload_task_started' = TRUE
       ELSE UNCHANGED <<cam_mux, hw, hw_unlocked, n_tasks, task, upload_task_started>>
    /\ UNCHANGED <<variant, holder, panic>>

\* update_wifi_status(false) -> on_wifi_status_change(false)
on_wifi_disconnected ==
    /\ variant \in {"A", "B"} /\ ~panic
    /\ UNCHANGED notCam
    /\ wifi_connected
    /\ wifi_connected' = FALSE
    /\ upload_task_started' = FALSE
    /\ UNCHANGED <<variant, cam_mux, holder, hw, task, n_tasks, hw_unlocked, panic>>


(***************************************************************************)
(* Claims about the camera controller.                                     *)
(***************************************************************************)

\* program points at which a loop iteration of the worker has ended
IterEnd(t) == task[t].pc \in {"A_delay", "B_delay", "P12_delay", "P14_end"}

\* program points between a successful take and the matching give
InFlight(t) ==
    task[t].pc \in {"A_grab", "A_capture", "A_release",
                    "B_grab", "B_reinit", "B_grab_hi", "B_cleanup", "B_give",
                    "P12_grab", "P12_hi_switch", "P12_hi_grab", "P12_restore",
                    "P14_grab", "P14_hi", "P14_restore", "P14_ret2"}

\* C1: whenever a capture sequence (camera_manager_capture, takeHighResPhoto)
\* has released the camera lock, the sensor was in the low-resolution
\* scanning format at that release, on every path through the capture.
C1_RestoredAtRelease ==
    \A t \in Tasks : task[t].rel # "n/a" => task[t].rel \in LowFormats

\* C2: ownership handover of camera_manager_motion_loop (revision A): when it
\* reports no motion (lock busy, no frame, allocation failure, no detection)
\* the frame has been returned and the caller holds no lock; when it reports
\* motion the caller holds the camera lock and the frame passed in fb_out.
C2_Handover ==
    \A t \in Tasks :
        /\ (task[t].pc = "A_delay" /\ task[t].scan \in {"busy", "nofb", "oom", "nohit"})
              => (task[t].frame # "borrowed" /\ Holds(t) = {})
        /\ task[t].pc = "A_capture"
              => (Locked(t) /\ task[t].frame = "borrowed")

\* C3: after every motion scan the task returns the frame exactly once and
\* releases the lock exactly once; at the end of every loop iteration no
\* frame is outstanding and the task holds no lock.
C3_ReturnOnceReleaseOnce ==
    \A t \in Tasks :
        IterEnd(t) =>
            /\ task[t].frame # "borrowed"
            /\ Holds(t) = {}
            /\ ~task[t].bad_give
            /\ task[t].scan \in {"hit", "nohit", "oom"} => task[t].ret_cnt = 1

\* C4: at most one of scan / capture / restore is in flight; every frame
\* grab, driver deinit/init and mode switch is made by the task holding the
\* camera lock; no two tasks hold a lock at once.
C4_MutualExclusion ==
    /\ ~hw_unlocked
    /\ Cardinality({t \in Tasks : InFlight(t)}) <= 1
    /\ Cardinality({t \in Tasks : Holds(t) # {}}) <= 1


(***************************************************************************)
(* Upload scheduler: upload_manager.c.                                     *)
(***************************************************************************)

\* bounds of the model
MaxTime == 600          \* the clock stops here
MaxFailed == 2          \* SpecUpload: consecutive failed passes explored
MaxLongTime == 1200     \* SpecInterval: the clock stops here
MaxAttempts == 260      \* SpecBackoff: consecutive failed passes explored
MaxFiles == 2           \* files a pass can find on the card
QUEUE_SIZE == 1         \* capacity of upload_queue in the model

\* constants of the program
INITIAL_BACKOFF_MS == 1000
MAX_BACKOFF_MS == 32000
MAX_WAIT_SECONDS == 600
MUTEX_WAIT_MS == 100
UINT8_RANGE == 256
W16 == 65536
TICK_WRAP_SECONDS == 4294967
PORT_MAX_DELAY == -1

Intervals == {0, 300, 900}
Files == {"a.csv", "b.jpg"}

UtIdle == [pc |-> "none", current_time |-> 0, wait_time |-> 0, wait_from |-> 0,
           bits |-> {},
           wifi_was_enabled |-> FALSE, upload_result |-> "none", backoff_time |-> 0]

NoCall == [op |-> "none", arg |-> "none", ret |-> "none",
           enq |-> "none", qret |-> "none"]

\* file_upload_task blocked in xQueueReceive
FuIdle == [pc |-> "receive", wifi_was_enabled |-> FALSE]

\* the kernel objects the manager has created and not deleted
NoObjects == [config_mutex |-> 0, event_group |-> 0, upload_task |-> 0]

UpIdle ==
    /\ now = 0
    /\ um = [is_initialized |-> FALSE, upload_interval |-> 0,
             last_upload_time |-> 0, failed_attempts |-> 0,
             max_backoff_ms |-> MAX_BACKOFF_MS,
             initial_backoff_ms |-> INITIAL_BACKOFF_MS,
             objects |-> NoObjects]
    /\ config_mutex = "free"
    /\ event_bits = {}
    /\ ut = UtIdle
    /\ upload_queue = 0
    /\ fu = FuIdle
    /\ last_call = NoCall
    /\ radio = [started |-> TRUE, wifi_initialized |-> FALSE]
    /\ hist = [quiet |-> TRUE, n_fail |-> 0, radio_before |-> TRUE,
               empty |-> FALSE]
       \* radio_before: the driver's state when the pass in progress began
       \* empty: upload_all_files of the pass in progress found no file

Min(a, b) == IF a < b THEN a ELSE b

(* ---- 32-bit unsigned arithmetic, as a pair of 16-bit halves ------------ *)

ToU32(a) == [hi |-> a \div W16, lo |-> a % W16]

\* x * 2 modulo 2^32
DoubleU32(x) ==
    LET lo2 == 2 * x.lo
    IN  [hi |-> (2 * x.hi + lo2 \div W16) % W16, lo |-> lo2 % W16]

RECURSIVE ShlU32(_, _)
\* x * 2^k modulo 2^32
ShlU32(x, k) == IF k = 0 THEN x ELSE ShlU32(DoubleU32(x), k - 1)

\* min_uint32(x, b) for b below 2^31, as an integer
min_uint32(x, b) ==
    IF x.hi < b \div W16 \/ (x.hi = b \div W16 /\ x.lo < b % W16)
    THEN x.hi * W16 + x.lo
    ELSE b

\* the values 1 << s can take: defined for 0 <= s <= 30 (the result is 2^s);
\* undefined for a negative s and for s >= 31, where the build may yield 0,
\* 1, or 2^(s mod 32).  -1 stands for the value 0, k >= 0 for 2^k.
ShiftOutcomes(s) == IF s \in 0..30 THEN {s} ELSE {-1, 0, s % 32}

\* initial_backoff_ms * (1 << (failed_attempts - 1)) in uint32_t, then
\* min_uint32(..., max_backoff_ms): the set of values the build can produce
BackoffTimes(failed_attempts) ==
    { min_uint32(IF k = -1 THEN ToU32(0) ELSE ShlU32(ToU32(um.initial_backoff_ms), k),
                 um.max_backoff_ms) : k \in ShiftOutcomes(failed_attempts - 1) }

(* ---- time -------------------------------------------------------------- *)

\* the instants the clock visits: 0, 299, 300, 599, 600, 899, ...
NextInstant(t) == IF t % 300 = 0 THEN t + 299 ELSE t + 1

\* (current_time - last_upload) in TickType_t, converted to seconds: the
\* subtraction wraps when last_upload is the later tick
ElapsedSeconds(current_time, last_upload) ==
    IF current_time >= last_upload
    THEN current_time - last_upload
    ELSE TICK_WRAP_SECONDS - (last_upload - current_time)

Due_never_early(interval, elapsed) == TRUE

Due_never(interval, elapsed) == FALSE

\* elapsed_seconds >= current_interval (lines 257 and 317)
Due(interval, elapsed) == elapsed >= interval

\* lines 252..279: the wait before xEventGroupWaitBits
WaitTime(interval, elapsed) ==
    IF interval > 0
    THEN IF Due(interval, elapsed) THEN 0
         ELSE Min(interval - elapsed, MAX_WAIT_SECONDS)
    ELSE PORT_MAX_DELAY

\* a caller that waits MUTEX_WAIT_MS for config_mutex times out only when
\* the holder keeps it at least that long (the backoff sleep at line 369)
MutexTimesOut == config_mutex # "free" /\ ut.backoff_time >= MUTEX_WAIT_MS

\* queue_file_upload: xQueueSend on upload_queue
QueueResult == IF upload_queue < QUEUE_SIZE THEN "ESP_OK" ELSE "ESP_FAIL"

clock_tick ==
    /\ now < MaxTime
    /\ now' = NextInstant(now)
    /\ UNCHANGED <<um, config_mutex, event_bits, ut, upload_queue, last_call, hist>>
    /\ UNCHANGED <<camRest, wifi_connected, radio>> /\ UNCHANGED notUp

\* the clock of the long-interval runs
clock_tick_long ==
    /\ now < MaxLongTime
    /\ now' = NextInstant(now)
    /\ UNCHANGED <<um, config_mutex, event_bits, ut, upload_queue, last_call, hist>>
    /\ UNCHANGED <<camRest, wifi_connected, radio>> /\ UNCHANGED notUp

\* event_handler -> update_wifi_status: the link comes up or goes down
wifi_event ==
    /\ ~wifi_connected => radio.started
    /\ wifi_connected' = ~wifi_connected
    /\ UNCHANGED upVars
    /\ UNCHANGED camRest /\ UNCHANGED notUp

\* file_upload_task seen from the scheduler: one request leaves upload_queue
file_upload_task ==
    /\ upload_queue > 0
    /\ upload_queue' = upload_queue - 1
    /\ UNCHANGED <<now, um, config_mutex, event_bits, ut, last_call, hist>>
    /\ UNCHANGED <<camRest, wifi_connected, radio>> /\ UNCHANGED notUp


(* ---- public entry points ----------------------------------------------- *)

\* what the three creations of upload_manager_init_ex can yield: the first
\* that fails ends the call; an initialised manager creates nothing
InitOutcomes ==
    IF um.is_initialized THEN {"ok"}
    ELSE {"ok", "no_mutex", "no_event_group", "no_task"}

\* upload_manager_init_ex(interval, initial_backoff_ms, max_backoff_ms) with
\* creation outcome o, without the is_initialized test
create_upload_manager(i, initial, max, o) ==
    /\ IF o = "no_mutex"
       THEN UNCHANGED <<um, ut>>
       ELSE IF o = "no_event_group"
       THEN UNCHANGED <<um, ut>>       \* the mutex is created and deleted
       ELSE IF o = "no_task"
       THEN /\ um' = [um EXCEPT !.upload_interval = i,
                                !.last_upload_time = now,
                                !.failed_attempts = 0,
                                !.initial_backoff_ms = initial,
                                !.max_backoff_ms = max]
            /\ UNCHANGED ut
       ELSE /\ um' = [um EXCEPT !.is_initialized = TRUE,
                                !.upload_interval = i,
                                !.last_upload_time = now,
                                !.failed_attempts = 0,
                                !.initial_backoff_ms = initial,
                                !.max_backoff_ms = max,
                                !.objects =
                                    [config_mutex |-> @.config_mutex + 1,
                                     event_group |-> @.event_group + 1,
                                     upload_task |-> @.upload_task + 1]]
            /\ ut' = [UtIdle EXCEPT !.pc = "top"]
    /\ last_call' = [NoCall EXCEPT !.op = "init",
                        !.ret = IF o = "ok" THEN "ESP_OK" ELSE "ESP_FAIL"]

\* a variant of upload_manager_init_ex that creates the objects again on
\* every call
upload_manager_init_ex_again(i, initial, max, o) ==
    create_upload_manager(i, initial, max, o)

\* upload_manager_init_ex: a no-op once initialised, else creates mutex,
\* event group and upload_task
upload_manager_init_ex(i, initial, max, o) ==
    IF um.is_initialized
    THEN /\ UNCHANGED <<um, ut>>
         /\ last_call' = [NoCall EXCEPT !.op = "init", !.ret = "ESP_OK"]
    ELSE create_upload_manager(i, initial, max, o)

\* upload_manager_init(interval): upload_manager_init_ex with the backoff
\* settings the manager has
upload_manager_init(i) ==
    /\ \E o \in InitOutcomes :
           upload_manager_init_ex(i, um.initial_backoff_ms, um.max_backoff_ms, o)
    /\ UNCHANGED <<now, config_mutex, event_bits, upload_queue, hist>>
    /\ UNCHANGED <<camRest, wifi_connected, radio>> /\ UNCHANGED notUp

\* a variant that stores the new interval without taking config_mutex
upload_manager_set_interval_unlocked(i) ==
    /\ IF ~um.is_initialized
       THEN /\ last_call' = [NoCall EXCEPT !.op = "set_interval",
                                           !.ret = "ESP_ERR_INVALID_STATE"]
            /\ UNCHANGED <<um, event_bits, hist>>
       ELSE /\ um' = [um EXCEPT !.upload_interval = i, !.last_upload_time = now]
            /\ event_bits' = event_bits \cup {"CONFIG"}
            /\ hist' = [hist EXCEPT !.quiet = FALSE]
            /\ last_call' = [NoCall EXCEPT !.op = "set_interval",
                                           !.ret = "ESP_OK"]
    /\ UNCHANGED <<now, config_mutex, ut, upload_queue>>
    /\ UNCHANGED <<camRest, wifi_connected, radio>> /\ UNCHANGED notUp

\* upload_manager_set_interval(i)
upload_manager_set_interval(i) ==
    /\ config_mutex # "free" => MutexTimesOut
    /\ IF ~um.is_initialized
       THEN /\ last_call' = [NoCall EXCEPT !.op = "set_interval",
                                           !.ret = "ESP_ERR_INVALID_STATE"]
            /\ UNCHANGED <<um, event_bits, hist>>
       ELSE IF config_mutex = "free"
       THEN /\ um' = [um EXCEPT !.upload_interval = i, !.last_upload_time = now]
            /\ event_bits' = event_bits \cup {"CONFIG"}
            /\ hist' = [hist EXCEPT !.quiet = FALSE]
            /\ last_call' = [NoCall EXCEPT !.op = "set_interval",
                                           !.ret = "ESP_OK"]
       ELSE /\ last_call' = [NoCall EXCEPT !.op = "set_interval",
                                           !.ret = "ESP_FAIL"]
            /\ UNCHANGED <<um, event_bits, hist>>
    /\ UNCHANGED <<now, config_mutex, ut, upload_queue>>
    /\ UNCHANGED <<camRest, wifi_connected, radio>> /\ UNCHANGED notUp

\* upload_manager_upload_now()
upload_manager_upload_now ==
    /\ IF ~um.is_initialized
       THEN /\ last_call' = [NoCall EXCEPT !.op = "upload_now",
                                           !.ret = "ESP_ERR_INVALID_STATE"]
            /\ UNCHANGED <<event_bits, hist>>
       ELSE /\ event_bits' = event_bits \cup {"TRIGGER"}
            /\ hist' = [hist EXCEPT !.quiet = FALSE]
            /\ last_call' = [NoCall EXCEPT !.op = "upload_now", !.ret = "ESP_OK"]
    /\ UNCHANGED <<now, um, config_mutex, ut, upload_queue>>
    /\ UNCHANGED <<camRest, wifi_connected, radio>> /\ UNCHANGED notUp

\* upload_manager_notify_new_file(f)
upload_manager_notify_new_file(f) ==
    /\ config_mutex # "free" => MutexTimesOut
    /\ IF ~um.is_initialized
       THEN /\ last_call' = [NoCall EXCEPT !.op = "notify", !.arg = f,
                                           !.ret = "ESP_ERR_INVALID_STATE"]
            /\ UNCHANGED upload_queue
       ELSE IF config_mutex # "free"
       THEN /\ last_call' = [NoCall EXCEPT !.op = "notify", !.arg = f,
                                           !.ret = "ESP_FAIL"]
            /\ UNCHANGED upload_queue
       ELSE IF um.upload_interval = 0
       THEN /\ upload_queue' = Min(upload_queue + 1, QUEUE_SIZE)
            /\ last_call' = [NoCall EXCEPT !.op = "notify", !.arg = f,
                                           !.enq = f, !.qret = QueueResult,
                                           !.ret = QueueResult]
       ELSE /\ last_call' = [NoCall EXCEPT !.op = "notify", !.arg = f,
                                           !.ret = "ESP_OK"]
            /\ UNCHANGED upload_queue
    /\ UNCHANGED <<now, um, config_mutex, event_bits, ut, hist>>
    /\ UNCHANGED <<camRest, wifi_connected, radio>> /\ UNCHANGED notUp

(* ---- upload_task -------------------------------------------------------- *)

\* line 234: current_time = xTaskGetTickCount()
ut_top ==
    /\ ut.pc = "top"
    /\ ut' = [ut EXCEPT !.pc = "cfg", !.current_time = now, !.bits = {}]
    /\ UNCHANGED <<now, um, config_mutex, event_bits, upload_queue, last_call, hist>>
    /\ UNCHANGED <<camRest, wifi_connected, radio>> /\ UNCHANGED notUp

\* lines 238..279: read the configuration under the mutex, compute the wait
ut_cfg ==
    /\ ut.pc = "cfg"
    /\ config_mutex = "free"
    /\ ut' = [ut EXCEPT !.pc = "wait", !.current_time = 0, !.wait_from = now,
                !.wait_time = WaitTime(um.upload_interval,
                                ElapsedSeconds(ut.current_time, um.last_upload_time))]
    /\ UNCHANGED <<now, um, config_mutex, event_bits, upload_queue, last_call, hist>>
    /\ UNCHANGED <<camRest, wifi_connected, radio>> /\ UNCHANGED notUp

\* a variant that looks at CONFIG first: a TRIGGER cleared by the same wait
\* is dropped
ut_wait_event_config_first ==
    /\ ut.pc = "wait"
    /\ event_bits # {}
    /\ event_bits' = {}
    /\ ut' = [ut EXCEPT !.pc = IF "CONFIG" \in event_bits THEN "top" ELSE "pass",
                        !.bits = event_bits,
                        !.wait_time = 0, !.wait_from = 0]
    /\ UNCHANGED <<now, um, config_mutex, upload_queue, last_call, hist>>
    /\ UNCHANGED <<camRest, wifi_connected, radio>> /\ UNCHANGED notUp

\* a variant in which any bit starts a pass
ut_wait_event_any_bit ==
    /\ ut.pc = "wait"
    /\ event_bits # {}
    /\ event_bits' = {}
    /\ ut' = [ut EXCEPT !.pc = "pass", !.bits = event_bits,
                        !.wait_time = 0, !.wait_from = 0]
    /\ UNCHANGED <<now, um, config_mutex, upload_queue, last_call, hist>>
    /\ UNCHANGED <<camRest, wifi_connected, radio>> /\ UNCHANGED notUp

\* lines 282..302: xEventGroupWaitBits returns with a bit set (both waited
\* bits are cleared on exit); TRIGGER starts a pass, CONFIG alone restarts.
\* bits is kept until the next statement that follows the branch.
ut_wait_event ==
    /\ ut.pc = "wait"
    /\ event_bits # {}
    /\ event_bits' = {}
    /\ ut' = [ut EXCEPT !.pc = IF "TRIGGER" \in event_bits THEN "pass" ELSE "top",
                        !.bits = event_bits,
                        !.wait_time = 0, !.wait_from = 0]
    /\ UNCHANGED <<now, um, config_mutex, upload_queue, last_call, hist>>
    /\ UNCHANGED <<camRest, wifi_connected, radio>> /\ UNCHANGED notUp

\* lines 303..306: xEventGroupWaitBits times out; current_time is read again
ut_wait_timeout ==
    /\ ut.pc = "wait"
    /\ event_bits = {}
    /\ ut.wait_time # PORT_MAX_DELAY
    /\ now >= ut.wait_from + ut.wait_time
    /\ ut' = [ut EXCEPT !.pc = "recheck", !.current_time = now,
                        !.wait_time = 0, !.wait_from = 0]
    /\ UNCHANGED <<now, um, config_mutex, event_bits, upload_queue, last_call, hist>>
    /\ UNCHANGED <<camRest, wifi_connected, radio>> /\ UNCHANGED notUp

\* lines 308..323: re-read the configuration, decide whether the pass is due
ut_recheck ==
    /\ ut.pc = "recheck"
    /\ config_mutex = "free"
    /\ ut' = [ut EXCEPT !.current_time = 0,
                !.pc = IF um.upload_interval > 0
                          /\ Due(um.upload_interval,
                                 ElapsedSeconds(ut.current_time, um.last_upload_time))
                       THEN "pass" ELSE "top"]
    /\ UNCHANGED <<now, um, config_mutex, event_bits, upload_queue, last_call, hist>>
    /\ UNCHANGED <<camRest, wifi_connected, radio>> /\ UNCHANGED notUp

\* what wifi_enable() can do when the link is down (part_007, 508-560): the
\* first call runs wifi_init_sta, which starts the driver and stops it again
\* when neither a connection nor a failure is reported in time; a later call
\* starts the driver and polls for the link.  ESP_OK is returned when the
\* link is up at the end; otherwise ESP_FAIL, the driver left as it is.
WifiEnableOutcomes ==
    {[ret |-> "ESP_OK", connected |-> TRUE, started |-> TRUE],
     [ret |-> "ESP_FAIL", connected |-> FALSE, started |-> TRUE]}
    \cup (IF radio.wifi_initialized THEN {}
          ELSE {[ret |-> "ESP_FAIL", connected |-> FALSE, started |-> FALSE]})

\* lines 327..344: the pass begins; wifi_enable() when the link is down
ut_pass ==
    /\ ut.pc = "pass"
    /\ IF wifi_connected
       THEN /\ ut' = [ut EXCEPT !.pc = "upload", !.wifi_was_enabled = TRUE,
                                !.bits = {}]
            /\ hist' = [hist EXCEPT !.radio_before = radio.started]
            /\ UNCHANGED <<wifi_connected, radio>>
       ELSE \E o \in WifiEnableOutcomes :
              /\ hist' = [hist EXCEPT !.radio_before =
                              IF o.ret = "ESP_OK" THEN radio.started ELSE TRUE]
              /\ wifi_connected' = o.connected
              /\ radio' = [started |-> o.started, wifi_initialized |-> TRUE]
              /\ ut' = [ut EXCEPT !.pc = IF o.ret = "ESP_OK" THEN "upload"
                                         ELSE "top",
                                  !.bits = {},
                                  !.wifi_was_enabled = FALSE]
    /\ UNCHANGED <<now, um, config_mutex, event_bits, upload_queue, last_call>>
    /\ UNCHANGED camRest /\ UNCHANGED notUp

\* lines 347..350 and 381..384: upload_all_files() when the radio is
\* connected: every file found is offered to queue_file_upload, the result
\* is ESP_OK when at least one was queued (cap: the consecutive failed
\* passes the model explores)
ut_upload(cap) ==
    /\ ut.pc = "upload"
    /\ IF wifi_connected
       THEN \E found \in 0..MaxFiles, dir_ok \in BOOLEAN :
              LET queued == IF dir_ok THEN Min(found, QUEUE_SIZE - upload_queue) ELSE 0
              IN  /\ queued > 0 \/ hist.n_fail < cap
                  /\ upload_queue' = upload_queue + queued
                  /\ ut' = [ut EXCEPT !.pc = "post",
                              !.upload_result = IF queued > 0 THEN "ESP_OK" ELSE "ESP_FAIL"]
                  /\ hist' = [hist EXCEPT !.empty = (dir_ok /\ found = 0)]
       ELSE /\ ut' = [ut EXCEPT !.pc = "top", !.wifi_was_enabled = FALSE]
            /\ hist' = [hist EXCEPT !.radio_before = TRUE]
            /\ UNCHANGED upload_queue
    /\ UNCHANGED <<now, um, config_mutex, event_bits, last_call>>
    /\ UNCHANGED <<camRest, wifi_connected, radio>> /\ UNCHANGED notUp

\* lines 353..368: take the mutex; success resets the schedule, failure
\* counts the attempt and computes the backoff (the mutex stays taken)
ut_post(cap) ==
    /\ ut.pc = "post"
    /\ config_mutex = "free"
    /\ IF ut.upload_result = "ESP_OK"
       THEN /\ um' = [um EXCEPT !.last_upload_time = now, !.failed_attempts = 0]
            /\ hist' = [hist EXCEPT !.n_fail = 0, !.empty = FALSE]
            /\ ut' = [ut EXCEPT !.pc = "radio", !.upload_result = "none"]
            /\ UNCHANGED config_mutex
       ELSE /\ hist.n_fail < cap
            /\ LET fa == (um.failed_attempts + 1) % UINT8_RANGE
               IN  /\ um' = [um EXCEPT !.failed_attempts = fa]
                   /\ \E b \in BackoffTimes(fa) :
                        ut' = [ut EXCEPT !.pc = "backoff", !.upload_result = "none",
                                         !.backoff_time = b]
            /\ hist' = [hist EXCEPT !.n_fail = @ + 1, !.empty = FALSE]
            /\ config_mutex' = "upload_task"
    /\ UNCHANGED <<now, event_bits, upload_queue, last_call>>
    /\ UNCHANGED <<camRest, wifi_connected, radio>> /\ UNCHANGED notUp

\* lines 369..371: the backoff sleep ends, the mutex is given
ut_backoff ==
    /\ ut.pc = "backoff"
    /\ config_mutex' = "free"
    /\ ut' = [ut EXCEPT !.pc = "radio", !.backoff_time = 0]
    /\ UNCHANGED <<now, um, event_bits, upload_queue, last_call, hist>>
    /\ UNCHANGED <<camRest, wifi_connected, radio>> /\ UNCHANGED notUp

\* lines 375..379: wifi_disable() when the link was down before the pass;
\* wifi_disable (part_007, 562-580) stops the driver only when the link is up
ut_radio ==
    /\ ut.pc = "radio"
    /\ IF ~ut.wifi_was_enabled /\ wifi_connected
       THEN /\ wifi_connected' = FALSE
            /\ radio' = [radio EXCEPT !.started = FALSE]
       ELSE UNCHANGED <<wifi_connected, radio>>
    /\ ut' = [ut EXCEPT !.pc = "top", !.wifi_was_enabled = FALSE]
    /\ hist' = [hist EXCEPT !.radio_before = TRUE]
    /\ UNCHANGED <<now, um, config_mutex, event_bits, upload_queue, last_call>>
    /\ UNCHANGED camRest /\ UNCHANGED notUp

\* upload_task without its timeout branch (all of it in real-time mode)
upload_task_events(cap) ==
    \/ ut_top \/ ut_cfg \/ ut_wait_event
    \/ ut_pass \/ ut_upload(cap) \/ ut_post(cap) \/ ut_backoff \/ ut_radio

upload_task(cap) ==
    \/ upload_task_events(cap) \/ ut_wait_timeout \/ ut_recheck

(* ---- file_upload_task (part_002, 146-209), step by step ---------------- *)

\* what the file-upload steps leave alone
notFu == <<now, um, config_mutex, event_bits, ut, last_call, hist, camRest,
           detVars, merge>>

\* lines 154-156 and 204-207: a request is received; stat() finds the file
\* or the request is dropped
fu_receive ==
    /\ fu.pc = "receive" /\ upload_queue > 0
    /\ upload_queue' = upload_queue - 1
    /\ \E exists \in BOOLEAN :
         fu' = [fu EXCEPT !.pc = IF exists THEN "radio_on" ELSE "receive"]
    /\ UNCHANGED <<wifi_connected, radio>> /\ UNCHANGED notFu

\* lines 158-172: is_wifi_connected(), wifi_enable() when the link is down,
\* then the one-second settle delay
fu_radio_on ==
    /\ fu.pc = "radio_on"
    /\ IF wifi_connected
       THEN /\ fu' = [pc |-> "check", wifi_was_enabled |-> TRUE]
            /\ UNCHANGED <<wifi_connected, radio>>
       ELSE \E o \in WifiEnableOutcomes :
              /\ wifi_connected' = o.connected
              /\ radio' = [started |-> o.started, wifi_initialized |-> TRUE]
              /\ fu' = [pc |-> IF o.ret = "ESP_OK" THEN "check" ELSE "receive",
                        wifi_was_enabled |-> FALSE]
    /\ UNCHANGED upload_queue /\ UNCHANGED notFu

\* lines 175-178 and 197-200: the second is_wifi_connected(); the transfer
\* begins, or the request is dropped
fu_check ==
    /\ fu.pc = "check"
    /\ fu' = [fu EXCEPT !.pc = IF wifi_connected THEN "send" ELSE "receive"]
    /\ UNCHANGED <<upload_queue, wifi_connected, radio>> /\ UNCHANGED notFu

\* lines 178-196: upload_file_to_https returns (either result is only
\* logged), then wifi_disable() when the link was down before the request
fu_send ==
    /\ fu.pc = "send"
    /\ IF ~fu.wifi_was_enabled /\ wifi_connected
       THEN /\ wifi_connected' = FALSE
            /\ radio' = [radio EXCEPT !.started = FALSE]
       ELSE UNCHANGED <<wifi_connected, radio>>
    /\ fu' = FuIdle
    /\ UNCHANGED upload_queue /\ UNCHANGED notFu

file_upload_task_steps ==
    fu_receive \/ fu_radio_on \/ fu_check \/ fu_send

(***************************************************************************)
(* Claims about the upload scheduler.                                      *)
(***************************************************************************)

RECURSIVE SatShl(_, _)
\* min(x * 2^k, MAX_BACKOFF_MS) over the integers
SatShl(x, k) ==
    IF k = 0 \/ x >= MAX_BACKOFF_MS THEN Min(x, MAX_BACKOFF_MS) ELSE SatShl(2 * x, k - 1)

\* C5: after the n-th consecutive failed pass the controller sleeps
\* min(initial_backoff_ms * 2^(n-1), max_backoff_ms), for every n >= 1.
C5_BackoffFormula ==
    ut.pc = "backoff" => ut.backoff_time = SatShl(INITIAL_BACKOFF_MS, hist.n_fail - 1)

\* C6: in real-time mode (interval 0) every upload_manager_notify_new_file
\* call of an initialised scheduler, in every state of upload_task, enqueues
\* the path it was given and returns the result of that enqueue.
C6_RealtimeNotify ==
    (um.is_initialized /\ um.upload_interval = 0 /\ last_call.op = "notify")
        => (last_call.enq = last_call.arg /\ last_call.ret = last_call.qret)

\* the window of C7: initialised with interval 300, no set_interval and no
\* upload_now call so far, fewer than 300 seconds since last_upload_time
QuietWindow ==
    /\ um.is_initialized /\ um.upload_interval = 300 /\ hist.quiet
    /\ now - um.last_upload_time < 300

\* C7: initialised with interval 300, and until upload_now() is called or
\* 300 seconds have elapsed: every notify_new_file returns ESP_OK without
\* enqueuing, nothing is enqueued, and no upload pass begins.
C7_IntervalQuiet ==
    [][ QuietWindow =>
          /\ (ut'.pc = "pass" => ut.pc = "pass")
          /\ upload_queue' <= upload_queue
          /\ (last_call' # last_call /\ last_call'.op = "notify")
                => (last_call'.ret = "ESP_OK" /\ last_call'.enq = "none") ]_vars

\* a notify call answered inside the window, 299 seconds after initialisation
C7_Witness ==
    /\ QuietWindow /\ now = 299 /\ um.last_upload_time = 0
    /\ last_call.op = "notify" /\ last_call.ret = "ESP_OK"
    /\ ut.pc = "wait" /\ ut.wait_time = 300


(***************************************************************************)
(* Motion detector: src/components/motion_detector/motion_detector.c.      *)
(*                                                                         *)
(* Frames are small grey-scale images whose pixels are 0 or 200.  For      *)
(* these pixel values the single-precision expression of line 105,         *)
(* (uint8_t)((1.0f - ALPHA) * bg + ALPHA * p), equals (9*bg + p) / 10      *)
(* rounded down for every bg in 0..255, with or without a fused            *)
(* multiply-add.  The detector is called by one task at a time.            *)
(***************************************************************************)
MaxFrames == 21          \* frames presented to one background model
SensorQueueLen == 1      \* capacity given to sensor_data_queue in the model

FRAME_INIT_COUNT == 20
MAX_COMPONENTS == 30
MIN_COMPONENT_PIXELS == 20
MAX_BOX_AREA == 10000
MIN_BOX_AREA == 30
IOU_THRESHOLD_NUM == 2   \* IOU_THRESHOLD 0.4 = 2/5
IOU_THRESHOLD_DEN == 5
MOTION_THRESHOLD == 50

FrameNames == {"flat", "blob", "block", "null"}

\* a frame as detect_motion receives it: pixels (row-major), width, height
FrameOf(name) ==
    CASE name = "flat" ->
           [null |-> FALSE, width |-> 9, height |-> 8,
            px |-> [i \in 1..72 |-> 0]]
      [] name = "blob" ->
           [null |-> FALSE, width |-> 9, height |-> 8,
            px |-> [i \in 1..72 |->
                      IF /\ ((i - 1) % 9) \in 1..7
                         /\ ((i - 1) \div 9) \in 1..6 THEN 200 ELSE 0]]
      [] name = "block" ->
           [null |-> FALSE, width |-> 4, height |-> 4,
            px |-> [i \in 1..16 |->
                      IF /\ ((i - 1) % 4) \in 1..2
                         /\ ((i - 1) \div 4) \in 1..2 THEN 200 ELSE 0]]
      [] name = "flat4" ->
           [null |-> FALSE, width |-> 4, height |-> 4,
            px |-> [i \in 1..16 |-> 0]]
      [] name = "null" ->
           [null |-> TRUE, width |-> 9, height |-> 8, px |-> <<>>]

\* the 4x4 scenes: an empty one and the one with the 2x2 block
SmallFrames == {"flat4", "block"}

\* outcome of the allocations made during one detect_motion call
BgAlloc == {"ok", "once", "twice"}
LateFail == {"none", "boxes", "pixels", "labels", "bfs", "json"}

NullModel == [null |-> TRUE, px |-> <<>>, width |-> 0, height |-> 0,
              initialized |-> FALSE]

NoDetect == [op |-> "none", frame |-> "null", ret |-> FALSE, reset |-> FALSE,
             n_presented |-> 0, stamp |-> FALSE, boxes |-> <<>>,
             sent |-> "n/a", fault |-> FALSE, failed |-> "none", held |-> {}]
       \* failed: the allocation of the call that failed; held: the buffers
       \* of the call still allocated when it returned

DetIdle ==
    /\ bg_model = NullModel
    /\ frame_counter = 0
    /\ sensor_data_queue = [null |-> TRUE, n |-> 0, orphaned |-> FALSE]
    /\ det = NoDetect

Abs(x) == IF x < 0 THEN -x ELSE x

InvalidInput(f) == f.null \/ f.width = 0 \/ f.height = 0

NeedsInit(bg, f) == bg.null \/ bg.width # f.width \/ bg.height # f.height

\* initialize_background_model on the pair m = [bg, fc, fault]; ok: malloc
\* succeeded.  The new buffer's contents are indeterminate; frame 0 of the
\* warm-up overwrites them (memcpy) before anything reads them.
InitializedModel(m, width, height, ok) ==
    IF ~ok
      THEN [m EXCEPT !.bg.null = TRUE, !.bg.px = <<>>]
      ELSE [m EXCEPT !.bg = [null |-> FALSE,
                             px |-> [i \in 1..(width * height) |-> 0],
                             width |-> width, height |-> height,
                             initialized |-> FALSE],
                     !.fc = 0]

\* variants used to test the warm-up properties
InWarmup_short(fc) == fc < FRAME_INIT_COUNT - 1
WarmupDone_early(fc) == fc >= FRAME_INIT_COUNT - 1

\* line 78
InWarmup(fc) == fc < FRAME_INIT_COUNT

\* line 92
WarmupDone(fc) == fc >= FRAME_INIT_COUNT

RunningMean(b, p, fc) == (b * fc + p) \div (fc + 1)

Ema(b, p) == (9 * b + p) \div 10

\* update_background_model on m = [bg, fc, fault]; ok: the malloc of a
\* re-initialisation made here succeeds.  Writing through a NULL buffer
\* stops the program (fault).
UpdatedModel(m, f, ok) ==
    IF InvalidInput(f) THEN m
    ELSE
      LET m1 == IF NeedsInit(m.bg, f)
                  THEN InitializedModel(m, f.width, f.height, ok) ELSE m
          n == f.width * f.height
      IN  IF m1.bg.null THEN [m1 EXCEPT !.fault = TRUE]
          ELSE IF InWarmup(m1.fc)
            THEN LET px1 == IF m1.fc = 0 THEN f.px
                            ELSE [i \in 1..n |->
                                    RunningMean(m1.bg.px[i], f.px[i], m1.fc)]
                     fc1 == m1.fc + 1
                 IN  [m1 EXCEPT !.bg.px = px1,
                                !.bg.initialized =
                                    IF WarmupDone(fc1) THEN TRUE ELSE @,
                                !.fc = fc1]
            ELSE [m1 EXCEPT !.bg.px = [i \in 1..n |->
                                         Ema(m1.bg.px[i], f.px[i])]]

\* ---- changed pixels and connected components (lines 384-523) ----------
ChangedPixels(bgpx, px, n, threshold) ==
    {i \in 0..(n - 1) : Abs(bgpx[i + 1] - px[i + 1]) > threshold}

\* a neighbourhood without the diagonals
Neighbours_4(i, width, height) ==
    LET cx == i % width
        cy == i \div width
    IN  {q[2] * width + q[1] :
            q \in {r \in {<<cx + dx, cy + dy>> : dx \in -1..1, dy \in -1..1} :
                      /\ (r[1] = cx) # (r[2] = cy)
                      /\ r[1] >= 0 /\ r[2] >= 0
                      /\ r[1] < width /\ r[2] < height}}

\* the 8-connected neighbourhood of pixel i inside the frame (lines 488-499)
Neighbours(i, width, height) ==
    LET cx == i % width
        cy == i \div width
    IN  {q[2] * width + q[1] :
            q \in {r \in {<<cx + dx, cy + dy>> : dx \in -1..1, dy \in -1..1} :
                      /\ r # <<cx, cy>>
                      /\ r[1] >= 0 /\ r[2] >= 0
                      /\ r[1] < width /\ r[2] < height}}

\* the breadth-first search of lines 461-509: comp grows by the changed,
\* unlabelled 8-neighbours of its frontier until nothing is added
RECURSIVE FloodFill(_, _, _, _, _)
FloodFill(frontier, comp, avail, width, height) ==
    IF frontier = {} THEN comp
    ELSE LET nxt == (UNION {Neighbours(i, width, height) : i \in frontier})
                        \cap (avail \ comp)
         IN  FloodFill(nxt, comp \cup nxt, avail, width, height)

SetMin(S) == CHOOSE x \in S : \A y \in S : x <= y
SetMax(S) == CHOOSE x \in S : \A y \in S : x >= y

ComponentOf(c, width) ==
    [x_min |-> SetMin({i % width : i \in c}),
     y_min |-> SetMin({i \div width : i \in c}),
     x_max |-> SetMax({i % width : i \in c}),
     y_max |-> SetMax({i \div width : i \in c}),
     pixel_count |-> Cardinality(c)]

\* the loop of lines 423-523 over the changed pixels in scan order; comps
\* holds the components kept so far, next_label = Len(comps) + 1; a
\* discarded component's labels are reset to 0
RECURSIVE LabelFrom(_, _, _, _, _, _)
LabelFrom(i, changed, labelled, comps, width, height) ==
    IF i = width * height THEN comps
    ELSE IF i \notin changed \/ i \in labelled
      THEN LabelFrom(i + 1, changed, labelled, comps, width, height)
    ELSE IF Len(comps) + 1 >= MAX_COMPONENTS THEN comps
    ELSE LET c == FloodFill({i}, {i}, changed \ labelled, width, height)
         IN  IF Cardinality(c) >= MIN_COMPONENT_PIXELS
               THEN LabelFrom(i + 1, changed, labelled \cup c,
                              Append(comps, ComponentOf(c, width)),
                              width, height)
               ELSE LabelFrom(i + 1, changed, labelled, comps, width, height)

\* the same loop, keeping the pixel set of every breadth-first search it
\* starts, in order, the discarded ones included
RECURSIVE FillsFrom(_, _, _, _, _, _, _)
FillsFrom(i, changed, labelled, n_kept, fills, width, height) ==
    IF i = width * height THEN fills
    ELSE IF i \notin changed \/ i \in labelled
      THEN FillsFrom(i + 1, changed, labelled, n_kept, fills, width, height)
    ELSE IF n_kept + 1 >= MAX_COMPONENTS THEN fills
    ELSE LET c == FloodFill({i}, {i}, changed \ labelled, width, height)
         IN  IF Cardinality(c) >= MIN_COMPONENT_PIXELS
               THEN FillsFrom(i + 1, changed, labelled \cup c, n_kept + 1,
                              Append(fills, c), width, height)
               ELSE FillsFrom(i + 1, changed, labelled, n_kept,
                              Append(fills, c), width, height)

BoxOf(comp) == [x_min |-> comp.x_min, y_min |-> comp.y_min,
                x_max |-> comp.x_max, y_max |-> comp.y_max]

\* lines 526-534
BoxesOf(comps) == [k \in 1..Len(comps) |-> BoxOf(comps[k])]

\* ---- boxes (lines 110-259) ---------------------------------------------
Area(b) == (b.x_max - b.x_min) * (b.y_max - b.y_min)

calculate_intersection(box1, box2) ==
    LET x_min == IF box1.x_min > box2.x_min THEN box1.x_min ELSE box2.x_min
        y_min == IF box1.y_min > box2.y_min THEN box1.y_min ELSE box2.y_min
        x_max == IF box1.x_max < box2.x_max THEN box1.x_max ELSE box2.x_max
        y_max == IF box1.y_max < box2.y_max THEN box1.y_max ELSE box2.y_max
    IN  IF x_min >= x_max \/ y_min >= y_max THEN 0
        ELSE (x_max - x_min) * (y_max - y_min)

calculate_union(box1, box2) ==
    Area(box1) + Area(box2) - calculate_intersection(box1, box2)

\* calculate_iou(box1, box2) > iou_threshold, in exact arithmetic: the
\* quotient is 0 when the union is 0; the areas are far too small for the
\* float rounding of the quotient to cross 0.4f
IouAbove(box1, box2) ==
    /\ calculate_union(box1, box2) # 0
    /\ IOU_THRESHOLD_DEN * calculate_intersection(box1, box2)
          > IOU_THRESHOLD_NUM * calculate_union(box1, box2)

merge_boxes(box1, box2) ==
    [x_min |-> IF box1.x_min < box2.x_min THEN box1.x_min ELSE box2.x_min,
     y_min |-> IF box1.y_min < box2.y_min THEN box1.y_min ELSE box2.y_min,
     x_max |-> IF box1.x_max > box2.x_max THEN box1.x_max ELSE box2.x_max,
     y_max |-> IF box1.y_max > box2.y_max THEN box1.y_max ELSE box2.y_max]

RemoveAt(s, k) == [x \in 1..(Len(s) - 1) |-> IF x < k THEN s[x] ELSE s[x + 1]]

RECURSIVE KeepIf(_, _)
KeepIf(boxes, keep) ==
    IF boxes = <<>> THEN <<>>
    ELSE IF Head(boxes) \in keep
      THEN <<Head(boxes)>> \o KeepIf(Tail(boxes), keep)
      ELSE KeepIf(Tail(boxes), keep)

Range(s) == {s[k] : k \in 1..Len(s)}

filter_large_boxes(boxes, max_area) ==
    KeepIf(boxes, {b \in Range(boxes) : ~(Area(b) > max_area)})

filter_small_boxes(boxes, min_area) ==
    KeepIf(boxes, {b \in Range(boxes) : ~(Area(b) < min_area)})

\* a variant that takes the width and the height for the last column and row
filter_edge_touching_boxes_past_end(boxes, frame_width, frame_height) ==
    KeepIf(boxes, {b \in Range(boxes) :
                     ~(\/ b.x_min = 0 \/ b.y_min = 0
                       \/ b.x_max = frame_width
                       \/ b.y_max = frame_height)})

filter_edge_touching_boxes(boxes, frame_width, frame_height) ==
    KeepIf(boxes, {b \in Range(boxes) :
                     ~(\/ b.x_min = 0 \/ b.y_min = 0
                       \/ b.x_max = frame_width - 1
                       \/ b.y_max = frame_height - 1)})

\* the two nested loops of lines 240-258, positions counted from 1: on a
\* merge boxes[i] becomes the merged box, boxes[j] is removed and the same j
\* is examined again; otherwise j advances; when j runs out, i advances
RECURSIVE MergeLoop(_, _, _)
MergeLoop(boxes, i, j) ==
    IF i > Len(boxes) THEN boxes
    ELSE IF j > Len(boxes) THEN MergeLoop(boxes, i + 1, i + 2)
    ELSE IF IouAbove(boxes[i], boxes[j])
      THEN MergeLoop(RemoveAt([boxes EXCEPT ![i] = merge_boxes(boxes[i], boxes[j])], j),
                     i, j)
      ELSE MergeLoop(boxes, i, j + 1)

FilterAndMerge(boxes, max_area) ==
    MergeLoop(filter_large_boxes(boxes, max_area), 1, 2)

\* lines 552-558: the filter stage of detect_motion on the boxes of the
\* components
FilteredBoxes(raw, width, height) ==
    filter_edge_touching_boxes(
        filter_small_boxes(FilterAndMerge(raw, MAX_BOX_AREA), MIN_BOX_AREA),
        width, height)

\* lines 384-545: the boxes detect_motion is left with
DetectedBoxes(bg, f, threshold) ==
    LET n == f.width * f.height
        changed == ChangedPixels(bg.px, f.px, n, threshold)
        comps == LabelFrom(0, changed, {}, <<>>, f.width, f.height)
        raw == BoxesOf(comps)
    IN  IF raw = <<>> THEN <<>>
        ELSE FilteredBoxes(raw, f.width, f.height)

\* ---- the calls ---------------------------------------------------------
\* create_data_log_queue, sdcard_interface.c:166-177: the handle is
\* overwritten with a new, empty queue and one more log_sensor_data_task is
\* started; records waiting in a queue it replaces stay allocated and are
\* read by no task (orphaned: there are such records)
create_data_log_queue ==
    /\ ~det.fault
    /\ sensor_data_queue' =
          [null |-> FALSE, n |-> 0,
           orphaned |-> sensor_data_queue.orphaned \/ sensor_data_queue.n > 0]
    /\ UNCHANGED <<bg_model, frame_counter, det>>
    /\ UNCHANGED notDet

\* start_tasks (main.c:16-23), run once by app_main, creates the queue
start_tasks ==
    /\ sensor_data_queue.null
    /\ create_data_log_queue

\* log_sensor_data_task, sdcard_interface.c:147-165: takes one record,
\* appends it to the CSV file and frees its bboxes string
log_sensor_data_task ==
    /\ ~det.fault
    /\ ~sensor_data_queue.null /\ sensor_data_queue.n > 0
    /\ sensor_data_queue' = [sensor_data_queue EXCEPT !.n = @ - 1]
    /\ UNCHANGED <<bg_model, frame_counter, det>>
    /\ UNCHANGED notDet

\* the buffers the call holds when allocation a fails.  pixel_x and pixel_y
\* are both requested before either is tested, and so are queue_x and
\* queue_y; boxes_to_json fails in its malloc or in the realloc that grows
\* the string
AcquiredBefore(a) ==
    CASE a = "boxes" -> {{}}
      [] a = "pixels" -> {{"boxes"}, {"boxes", "pixel_x"}, {"boxes", "pixel_y"}}
      [] a = "labels" -> {{"boxes", "pixel_x", "pixel_y"}}
      [] a = "bfs" -> {{"boxes", "pixel_x", "pixel_y", "labels"} \cup q :
                         q \in {{}, {"queue_x"}, {"queue_y"}}}
      [] a = "json" -> {{"boxes"}, {"boxes", "json_string"}}

\* a variant of the BFS failure path that forgets the label map
FreedOnFailure_keeps_labels(a) ==
    CASE a = "boxes" -> {}
      [] a = "pixels" -> {"boxes", "pixel_x", "pixel_y"}
      [] a = "labels" -> {"boxes", "pixel_x", "pixel_y"}
      [] a = "bfs" -> {"boxes", "pixel_x", "pixel_y", "queue_x", "queue_y"}
      [] a = "json" -> {"json_string", "boxes"}

\* the buffers each failure path frees before it returns (lines 365, 375-377,
\* 412-414, 448-455; boxes_to_json line 299 and detect_motion line 610)
FreedOnFailure(a) ==
    CASE a = "boxes" -> {}
      [] a = "pixels" -> {"boxes", "pixel_x", "pixel_y"}
      [] a = "labels" -> {"boxes", "pixel_x", "pixel_y"}
      [] a = "bfs" -> {"labels", "boxes", "pixel_x", "pixel_y", "queue_x", "queue_y"}
      [] a = "json" -> {"json_string", "boxes"}

\* what a call in which allocation a failed can return holding
HeldAtReturn(a) ==
    IF a = "none" THEN {{}}
    ELSE {acq \ FreedOnFailure(a) : acq \in AcquiredBefore(a)}

\* a variant in which such a call reports motion
NoMotion_reports(name, m, reset, n1, stamp, a) ==
    /\ bg_model' = m.bg
    /\ frame_counter' = m.fc
    /\ \E h \in HeldAtReturn(a) :
         det' = [op |-> "detect", frame |-> name, ret |-> TRUE,
                 reset |-> reset, n_presented |-> n1, stamp |-> stamp,
                 boxes |-> <<>>, sent |-> "n/a", fault |-> m.fault,
                 failed |-> a, held |-> h]
    /\ UNCHANGED sensor_data_queue

\* a call that returns false without reporting anything; a: the allocation
\* of the call that failed ("none": the call returned false for another
\* reason)
NoMotion(name, m, reset, n1, stamp, a) ==
    /\ bg_model' = m.bg
    /\ frame_counter' = m.fc
    /\ \E h \in HeldAtReturn(a) :
         det' = [op |-> "detect", frame |-> name, ret |-> FALSE,
                 reset |-> reset, n_presented |-> n1, stamp |-> stamp,
                 boxes |-> <<>>, sent |-> "n/a", fault |-> m.fault,
                 failed |-> a, held |-> h]
    /\ UNCHANGED sensor_data_queue

\* detect_motion(pixels, width, height, threshold, detection_timestamp),
\* lines 337-612.  g: outcome of the background-buffer allocations ("once":
\* the one made by detect_motion fails and the one made by
\* update_background_model succeeds; "twice": both fail); a: the later
\* allocation that fails.  Only an allocation that the call makes can fail.
detect_motion(name, g) ==
    /\ ~det.fault
    /\ LET f == FrameOf(name)
           m0 == [bg |-> bg_model, fc |-> frame_counter, fault |-> FALSE]
           m1 == IF NeedsInit(m0.bg, f)
                   THEN InitializedModel(m0, f.width, f.height, g = "ok")
                   ELSE m0
           m2 == UpdatedModel(m1, f, g # "twice")
           reset == NeedsInit(m0.bg, f) /\ ~m2.fault
           n1 == IF m2.fault THEN det.n_presented
                 ELSE IF reset THEN 1 ELSE det.n_presented + 1
           changed == ChangedPixels(m2.bg.px, f.px, f.width * f.height,
                                    MOTION_THRESHOLD)
           boxes == DetectedBoxes(m2.bg, f, MOTION_THRESHOLD)
           sent == IF sensor_data_queue.null THEN "freed_null"
                   ELSE IF sensor_data_queue.n < SensorQueueLen THEN "queued"
                   ELSE "freed_full"
       IN  IF InvalidInput(f)
             THEN g = "ok" /\ NoMotion(name, m0, FALSE, det.n_presented, FALSE, "none")
           ELSE
             /\ g # "ok" => NeedsInit(m0.bg, f)
             /\ n1 <= MaxFrames
             /\ IF m2.fault \/ ~m2.bg.initialized
                  THEN NoMotion(name, m2, reset, n1, FALSE, "none")
                ELSE IF Cardinality(changed) < MIN_COMPONENT_PIXELS
                  THEN \E a \in {"none", "boxes", "pixels"} :
                          NoMotion(name, m2, reset, n1, FALSE, a)
                ELSE IF boxes = <<>>
                  THEN \E a \in {"none", "boxes", "pixels", "labels", "bfs"} :
                          NoMotion(name, m2, reset, n1, FALSE, a)
                ELSE \E a \in LateFail :
                  IF a \in {"boxes", "pixels", "labels", "bfs"}
                    THEN NoMotion(name, m2, reset, n1, FALSE, a)
                  ELSE IF a = "json"
                    THEN NoMotion(name, m2, reset, n1, TRUE, a)
                  ELSE
                    /\ bg_model' = m2.bg
                    /\ frame_counter' = m2.fc
                    /\ sensor_data_queue' =
                          IF sent = "queued"
                            THEN [sensor_data_queue EXCEPT !.n = @ + 1]
                            ELSE sensor_data_queue
                    /\ det' = [op |-> "detect", frame |-> name,
                               ret |-> TRUE, reset |-> reset,
                               n_presented |-> n1, stamp |-> TRUE,
                               boxes |-> boxes, sent |-> sent,
                               fault |-> FALSE, failed |-> "none",
                               held |-> {}]
    /\ UNCHANGED notDet

\* initialize_background_model(width, height) called from outside the
\* detector (camera initialisation), lines 44-63
initialize_background_model(width, height, ok) ==
    /\ ~det.fault
    /\ LET m == InitializedModel([bg |-> bg_model, fc |-> frame_counter,
                                  fault |-> FALSE], width, height, ok)
       IN  /\ bg_model' = m.bg
           /\ frame_counter' = m.fc
           /\ det' = [NoDetect EXCEPT !.op = "initialize", !.reset = ok,
                        !.n_presented = IF ok THEN 0 ELSE det.n_presented]
    /\ UNCHANGED sensor_data_queue
    /\ UNCHANGED notDet

\* cleanup_background_model, lines 615-628
cleanup_background_model ==
    /\ ~det.fault
    /\ bg_model' = NullModel
    /\ frame_counter' = 0
    /\ det' = [NoDetect EXCEPT !.op = "cleanup", !.reset = TRUE]
    /\ UNCHANGED sensor_data_queue
    /\ UNCHANGED notDet

(***************************************************************************)
(* filter_and_merge_boxes applied to a list of boxes.                      *)
(***************************************************************************)
MaxBoxes == 3

\* well-formed boxes on a coarse grid
GridX == {0, 4, 8, 10, 14}
GridBoxes == {[x_min |-> p[1], y_min |-> 0, x_max |-> p[2], y_max |-> 10] :
                 p \in {q \in GridX \X GridX : q[1] <= q[2]}}

RECURSIVE ListsOf(_, _)
ListsOf(S, k) ==
    IF k = 0 THEN {<<>>}
    ELSE LET shorter == ListsOf(S, k - 1)
         IN  shorter \cup {Append(l, b) : l \in {x \in shorter : Len(x) = k - 1}, b \in S}

\* pass counts the applications of the merge pass to the list
MergeIdle == merge = [pc |-> "idle", boxes |-> <<>>, out |-> <<>>, pass |-> 0,
                      changed |-> {}, fills |-> <<>>]

\* filter_and_merge_boxes(boxes, &box_count, IOU_THRESHOLD, MAX_BOX_AREA)
filter_and_merge_boxes ==
    /\ merge.pc = "call"
    /\ merge' = [merge EXCEPT !.pc = "done",
                              !.out = FilterAndMerge(merge.boxes, MAX_BOX_AREA)]
    /\ UNCHANGED notMerge

\* boxes inside an 8x8 frame, some touching its edges
EdgeFrame == [width |-> 8, height |-> 8]
EdgeX == {<<0, 0>>, <<0, 2>>, <<2, 5>>, <<5, 5>>, <<2, 7>>, <<0, 7>>}
EdgeY == {<<0, 3>>, <<2, 5>>, <<5, 7>>}
EdgeBoxes == {[x_min |-> p[1], y_min |-> r[1], x_max |-> p[2], y_max |-> r[2]] :
                 p \in EdgeX, r \in EdgeY}

\* filter_edge_touching_boxes(boxes, &box_count, width, height)
edge_filter ==
    /\ merge.pc = "edge_call"
    /\ merge' = [merge EXCEPT !.pc = "edge_done",
                              !.out = filter_edge_touching_boxes(
                                          merge.boxes, EdgeFrame.width,
                                          EdgeFrame.height)]
    /\ UNCHANGED notMerge

\* changed-pixel sets of a 9x8 frame, put together from pieces: a block of
\* 19 pixels, a pixel touching it only diagonally, a block of 21 pixels, a
\* pixel on top of it, two specks, and a bar along the last row
LabelFrame == [width |-> 9, height |-> 8]
PixelAt(x, y) == y * LabelFrame.width + x
Pieces ==
    <<{PixelAt(x, y) : x \in 0..2, y \in 0..5} \cup {PixelAt(0, 6)},
      {PixelAt(1, 7)},
      {PixelAt(x, y) : x \in 6..8, y \in 1..7},
      {PixelAt(8, 0)},
      {PixelAt(4, 0), PixelAt(4, 1)},
      {PixelAt(4, 3), PixelAt(4, 4)},
      {PixelAt(x, 7) : x \in 2..5}>>
ChangedSets == {UNION {Pieces[k] : k \in K} : K \in SUBSET (1..Len(Pieces))}

\* detect_motion lines 400-546 on the changed pixels of a frame: the early
\* exit below MIN_COMPONENT_PIXELS changed pixels, else the labelling loop
\* and the boxes of the components it kept
label_components ==
    /\ merge.pc = "label_call"
    /\ LET few == Cardinality(merge.changed) < MIN_COMPONENT_PIXELS
           comps == LabelFrom(0, merge.changed, {}, <<>>,
                              LabelFrame.width, LabelFrame.height)
           fills == FillsFrom(0, merge.changed, {}, 0, <<>>,
                              LabelFrame.width, LabelFrame.height)
       IN  merge' = [merge EXCEPT !.pc = "labelled",
                                  !.boxes = IF few THEN <<>> ELSE BoxesOf(comps),
                                  !.fills = IF few THEN <<>> ELSE fills]
    /\ UNCHANGED notMerge

\* boxes inside a QVGA frame: some near the maximum area, some small, some
\* touching an edge
BigFrame == [width |-> 320, height |-> 240]
BigX == {<<10, 110>>, <<30, 130>>, <<10, 130>>, <<0, 100>>, <<200, 205>>}
BigY == {<<10, 110>>, <<10, 15>>, <<100, 239>>}
BigBoxes == {[x_min |-> p[1], y_min |-> r[1], x_max |-> p[2], y_max |-> r[2]] :
                p \in BigX, r \in BigY}

\* detect_motion lines 552-558 on a list of component boxes
box_filters ==
    /\ merge.pc = "filter_call"
    /\ merge' = [merge EXCEPT !.pc = "filtered",
                              !.out = FilteredBoxes(merge.boxes, BigFrame.width,
                                                    BigFrame.height)]
    /\ UNCHANGED notMerge

\* the caller hands the list a pass has produced to filter_and_merge_boxes
\* once more
merge_again ==
    /\ merge.pc = "done"
    /\ merge.pass = 1
    /\ merge' = [pc |-> "call", boxes |-> merge.out, out |-> <<>>, pass |-> 2,
                 changed |-> {}, fills |-> <<>>]
    /\ UNCHANGED notMerge


(***************************************************************************)
(* Properties of the background model's warm-up.                           *)
(* det.n_presented counts the valid frames given to detect_motion since    *)
(* the model was last reset; it is kept apart from frame_counter.          *)
(***************************************************************************)

\* C8: for every frame presented before warm-up completes (fewer than
\* FRAME_INIT_COUNT frames since the last reset, this one included),
\* detect_motion returns "no motion" and bg_model.initialized is false.
C8_NoDecisionInWarmup ==
    (det.op = "detect" /\ det.n_presented < FRAME_INIT_COUNT)
        => (det.ret = FALSE /\ ~bg_model.initialized)

\* the 19th frame of a warm-up shows the blob on a background that does not
C8_Witness ==
    /\ det.op = "detect" /\ det.frame = "blob" /\ ~det.fault
    /\ det.n_presented = FRAME_INIT_COUNT - 1
    /\ ~bg_model.null
    /\ Cardinality(ChangedPixels(bg_model.px, FrameOf("blob").px, 72,
                                 MOTION_THRESHOLD)) >= MIN_COMPONENT_PIXELS
    /\ det.ret = FALSE /\ ~bg_model.initialized

\* C9: initialized is true exactly when FRAME_INIT_COUNT or more frames have
\* been presented since the last reset; it becomes true on the frame number
\* FRAME_INIT_COUNT, and it becomes false again only in a reset:
\* initialize_background_model, cleanup_background_model, or a detect_motion
\* call that re-initialises the model for its frame.
C9_WarmupExactlyOnce ==
    [][ /\ bg_model'.initialized <=> det'.n_presented >= FRAME_INIT_COUNT
        /\ (~bg_model.initialized /\ bg_model'.initialized)
              => (det'.op = "detect" /\ det'.n_presented = FRAME_INIT_COUNT)
        /\ (bg_model.initialized /\ ~bg_model'.initialized)
              => \/ det'.op \in {"initialize", "cleanup"}
                 \/ /\ det'.op = "detect"
                    /\ NeedsInit(bg_model, FrameOf(det'.frame)) ]_vars

\* a frame presented after the warm-up has completed
C9_Witness ==
    /\ det.op = "detect" /\ det.frame # "null" /\ ~det.fault
    /\ det.n_presented = FRAME_INIT_COUNT + 1
    /\ frame_counter = FRAME_INIT_COUNT
    /\ bg_model.initialized


(***************************************************************************)
(* Properties of the merge pass.                                           *)
(***************************************************************************)

\* C10: when filter_and_merge_boxes returns, no two of the remaining boxes
\* have an IoU above the merge threshold, whatever list it was given.
C10_NoPairAboveThreshold ==
    merge.pc = "done" =>
        \A i, j \in 1..Len(merge.out) :
            i < j => ~IouAbove(merge.out[i], merge.out[j])

\* C11: a list of two boxes whose IoU is above the merge threshold comes out
\* as the single box that is their axis-aligned union, and a second merge
\* pass over the output of a first pass returns that list unchanged.
C11_UnionAndIdempotent ==
    /\ (merge.pc = "done" /\ Len(merge.boxes) = 2
            /\ IouAbove(merge.boxes[1], merge.boxes[2]))
         => merge.out = <<merge_boxes(merge.boxes[1], merge.boxes[2])>>
    /\ (merge.pc = "done" /\ merge.pass = 2) => merge.out = merge.boxes


(***************************************************************************)
(* The 2x2 block on a 4x4 frame.                                           *)
(***************************************************************************)

\* the pixels (y * width + x) of the 2x2 block at rows and columns 1..2 of
\* a 4x4 frame
BlockPixels == {y * 4 + x : x \in 1..2, y \in 1..2}

\* a call on the block frame with a warmed-up 4x4 background from which
\* exactly the block differs by more than the threshold
BlockCase ==
    /\ det.op = "detect" /\ det.frame = "block" /\ ~det.fault
    /\ bg_model.initialized /\ ~bg_model.null
    /\ bg_model.width = 4 /\ bg_model.height = 4
    /\ ChangedPixels(bg_model.px, FrameOf("block").px, 16,
                     MOTION_THRESHOLD) = BlockPixels

\* C12 as stated: in that case the call reports motion with the single box
\* {1,1,2,2}, which counts as area 4 and passes the filters, and that box
\* is what is serialized.
C12_BlockDetected ==
    BlockCase =>
        /\ det.ret = TRUE
        /\ det.boxes = <<[x_min |-> 1, y_min |-> 1, x_max |-> 2, y_max |-> 2]>>
        /\ Area([x_min |-> 1, y_min |-> 1, x_max |-> 2, y_max |-> 2]) = 4

\* C12, amended: in that case the call reports no motion, because the four
\* changed pixels are fewer than MIN_COMPONENT_PIXELS: no box is produced,
\* no detection timestamp is written and nothing is serialized or queued.
C12_BlockBelowNoiseFloor ==
    BlockCase =>
        /\ Cardinality(BlockPixels) < MIN_COMPONENT_PIXELS
        /\ det.ret = FALSE
        /\ det.boxes = <<>>
        /\ det.stamp = FALSE
        /\ det.sent = "n/a"

C12_Witness ==
    /\ BlockCase
    /\ det.n_presented > FRAME_INIT_COUNT
    /\ det.ret = FALSE


(***************************************************************************)
(* Properties of the edge filter.                                          *)
(***************************************************************************)

TouchesEdge(b, width, height) ==
    \/ b.x_min = 0 \/ b.y_min = 0
    \/ b.x_max = width - 1 \/ b.y_max = height - 1

\* the positions of the input list whose box touches no edge
InnerPositions ==
    {k \in 1..Len(merge.boxes) :
        ~TouchesEdge(merge.boxes[k], EdgeFrame.width, EdgeFrame.height)}

\* the n-th of these positions, counted from 1
InnerPosition(n) ==
    CHOOSE k \in InnerPositions :
        Cardinality({x \in InnerPositions : x < k}) = n - 1

\* C13: after the edge filter no box of the list touches an edge of the
\* frame (x_min = 0, y_min = 0, x_max = width - 1 or y_max = height - 1),
\* whatever its size, and the list is made of exactly the input's boxes that
\* touch no edge, in the order they had.
C13_EdgeFilter ==
    merge.pc = "edge_done" =>
        /\ \A k \in 1..Len(merge.out) :
              ~TouchesEdge(merge.out[k], EdgeFrame.width, EdgeFrame.height)
        /\ Len(merge.out) = Cardinality(InnerPositions)
        /\ \A n \in 1..Len(merge.out) :
              merge.out[n] = merge.boxes[InnerPosition(n)]

\* a box with x_min = 0 has been removed from between two different boxes
\* that touch no edge
C13_Witness ==
    /\ merge.pc = "edge_done"
    /\ Len(merge.boxes) = 3 /\ Len(merge.out) = 2
    /\ merge.out[1] # merge.out[2]
    /\ merge.boxes[1] = merge.out[1] /\ merge.boxes[3] = merge.out[2]
    /\ merge.boxes[2].x_min = 0 /\ merge.boxes[2].x_max = 2
    /\ merge.boxes[2].y_min = 2 /\ merge.boxes[2].y_max = 5


(***************************************************************************)
(* Properties of the upload trigger.                                       *)
(***************************************************************************)

\* the model explores no further failed pass: MaxFailed passes in a row have
\* failed and the pass in progress cannot succeed while upload_queue is full
AtFailureBound == ut.pc = "upload" /\ hist.n_fail >= MaxFailed

\* C14: every upload_now() call that returns ESP_OK leaves TRIGGER raised;
\* a raised TRIGGER stays raised (through a pass and a backoff delay in
\* progress too) until upload_task consumes it, in either mode and without
\* any timeout; consuming it begins an upload pass; and it is eventually
\* consumed (as far as the model explores failed passes).
C14_TriggerServed ==
    /\ [][ /\ (last_call'.op = "upload_now" /\ last_call'.ret = "ESP_OK"
                  /\ last_call' # last_call)
                => "TRIGGER" \in event_bits'
           /\ ("TRIGGER" \in event_bits /\ "TRIGGER" \notin event_bits')
                => (ut.pc = "wait" /\ ut'.pc = "pass") ]_vars
    /\ [](("TRIGGER" \in event_bits)
            => <>(\/ ut.pc = "pass" /\ "TRIGGER" \notin event_bits
                  \/ AtFailureBound))

\* upload_now() has returned ESP_OK during the backoff delay of a failed
\* pass, in interval mode, before the interval has elapsed
C14_Witness ==
    /\ last_call.op = "upload_now" /\ last_call.ret = "ESP_OK"
    /\ ut.pc = "backoff" /\ "TRIGGER" \in event_bits
    /\ um.upload_interval = 300 /\ now - um.last_upload_time < 300


(***************************************************************************)
(* Properties of upload_manager_set_interval.                              *)
(***************************************************************************)

\* C15: a upload_manager_set_interval(s) call with s > 0 that returns ESP_OK
\* has stored s, has set last_upload_time to the time of the call and has
\* raised CONFIG; and a pass started by the timeout branch of upload_task
\* begins only when the stored interval has elapsed since last_upload_time,
\* which is the time of that call until a pass succeeds.
C15_SetIntervalRestartsTimer ==
    [][ /\ \A s \in Intervals \ {0} :
              (upload_manager_set_interval(s) /\ last_call'.ret = "ESP_OK")
                 => /\ um'.upload_interval = s
                    /\ um'.last_upload_time = now
                    /\ "CONFIG" \in event_bits'
        /\ (ut.pc = "recheck" /\ ut'.pc = "pass")
              => now - um.last_upload_time >= um.upload_interval ]_vars


(***************************************************************************)
(* Properties of the radio around an upload pass.                          *)
(***************************************************************************)

\* C16: when an upload pass ends (upload_task returns to the top of its
\* loop) the WiFi driver is in the power state it had when the pass began:
\* started for the pass, it has been stopped again, whether the pass
\* succeeded, failed or was given up; found started, it is left started.
C16_RadioRestored ==
    [][ /\ (ut.pc = "pass" /\ ut'.pc = "top")
              => radio'.started = radio.started
        /\ (ut.pc \in {"upload", "radio"} /\ ut'.pc = "top")
              => radio'.started = hist.radio_before ]_vars


(***************************************************************************)
(* Properties of the pass accounting.                                      *)
(***************************************************************************)

\* C17: the step that records the result of a pass (lines 353-372) sets
\* last_upload_time to the current time and failed_attempts to 0 when the
\* pass succeeded; when it failed it leaves last_upload_time as it was and
\* makes failed_attempts one larger; so failed_attempts is at all times the
\* number of consecutive failed passes since the last success.
C17_PassAccounting ==
    /\ [][ (ut.pc = "post" /\ ut'.pc # "post")
             => IF ut.upload_result = "ESP_OK"
                  THEN /\ um'.last_upload_time = now
                       /\ um'.failed_attempts = 0
                  ELSE /\ um'.last_upload_time = um.last_upload_time
                       /\ um'.failed_attempts = um.failed_attempts + 1 ]_vars
    /\ [](um.failed_attempts = hist.n_fail)


(***************************************************************************)
(* Properties of the bboxes payload.                                       *)
(***************************************************************************)

\* C18: every serialized payload is released exactly once: the producer
\* frees it when the queue is missing or full and leaves it alone once it is
\* queued, and every queued payload is in the queue the consumer reads, which
\* frees it after logging the record; none is left where no task reads it.
C18_PayloadReleasedOnce ==
    /\ ~sensor_data_queue.orphaned
    /\ (det.op = "detect" /\ det.ret)
          => /\ det.sent \in {"queued", "freed_null", "freed_full"}
             /\ det.sent = "queued" => ~sensor_data_queue.null


(***************************************************************************)
(* Properties of the config mutex.                                         *)
(***************************************************************************)

\* the scheduler state the mutex protects
Guarded == <<um.upload_interval, um.last_upload_time, um.failed_attempts>>

\* C19: once the manager is initialised, a step that writes the interval,
\* last_upload_time or failed_attempts, and a step in which upload_task or
\* notify_new_file reads them, is made by a task that takes config_mutex
\* (free before the step) or holds it; and a set_interval or notify_new_file
\* call that finds the mutex held for its whole timeout returns ESP_FAIL
\* and leaves the scheduler state, the event flags and upload_queue as
\* they were.
C19_MutexGuardsConfig ==
    [][ um.is_initialized =>
          /\ Guarded' # Guarded => config_mutex = "free"
          /\ (ut.pc \in {"cfg", "recheck", "post"} /\ ut'.pc # ut.pc)
                => config_mutex = "free"
          /\ (last_call' # last_call /\ last_call'.op = "notify"
                 /\ last_call'.enq # "none")
                => config_mutex = "free"
          /\ (config_mutex # "free" /\ last_call' # last_call
                 /\ last_call'.op \in {"set_interval", "notify"})
                => /\ last_call'.ret = "ESP_FAIL"
                   /\ last_call'.enq = "none"
                   /\ um' = um
                   /\ event_bits' = event_bits
                   /\ upload_queue' = upload_queue ]_vars

\* set_interval has failed on the mutex during the backoff delay of a failed
\* pass, and nothing has changed
C19_Witness ==
    /\ last_call.op = "set_interval" /\ last_call.ret = "ESP_FAIL"
    /\ config_mutex = "upload_task" /\ ut.pc = "backoff"
    /\ um.is_initialized /\ um.failed_attempts = 1
    /\ "CONFIG" \notin event_bits


(***************************************************************************)
(* Properties of initialisation.                                           *)
(***************************************************************************)

\* C20: whatever upload_manager_init calls have been made, there is at most
\* one upload_task, one config mutex and one event group (exactly one of
\* each once the manager is initialised, none before); and a call made
\* when the manager is initialised returns ESP_OK and leaves the interval,
\* last_upload_time, failed_attempts, the backoff parameters and the
\* running task as they were.
C20_InitIdempotent ==
    /\ [](\A k \in DOMAIN um.objects :
            um.objects[k] = IF um.is_initialized THEN 1 ELSE 0)
    /\ [][ \A i \in Intervals :
             (um.is_initialized /\ upload_manager_init(i))
                => /\ last_call'.op = "init" /\ last_call'.ret = "ESP_OK"
                   /\ um' = um
                   /\ ut' = ut
                   /\ config_mutex' = config_mutex
                   /\ event_bits' = event_bits ]_vars

\* init has been called again after a failed pass of the running task, and
\* the 300 s interval and the failure count are still there
C20_Witness ==
    /\ last_call.op = "init" /\ last_call.ret = "ESP_OK"
    /\ um.is_initialized /\ um.upload_interval = 300
    /\ um.failed_attempts = 1 /\ ut.pc = "backoff"
    /\ um.objects = [config_mutex |-> 1, event_group |-> 1, upload_task |-> 1]


(***************************************************************************)
(* Properties of the interval timer.                                       *)
(***************************************************************************)

\* interval_seconds have elapsed since last_upload_time
IntervalElapsed ==
    /\ um.is_initialized /\ um.upload_interval > 0
    /\ now - um.last_upload_time >= um.upload_interval

\* upload_task is blocked in a wait that ends after the last instant of the
\* clock
WaitOutlastsClock ==
    /\ ut.pc = "wait" /\ ut.wait_time # PORT_MAX_DELAY
    /\ ut.wait_from + ut.wait_time > now /\ now >= MaxLongTime

\* C21: in interval mode, whether or not upload_now is ever called, once
\* upload_interval seconds have elapsed since last_upload_time upload_task
\* begins a pass (or, the pass in progress having succeeded, the interval
\* has been restarted), for the 300 s interval and for the 900 s interval
\* that exceeds the 600 s wait ceiling; the only exception is a wait that
\* the clock of the model does not live to see the end of.
C21_IntervalPassBegins ==
    [](IntervalElapsed => <>(\/ ut.pc = "pass"
                             \/ ~IntervalElapsed
                             \/ WaitOutlastsClock))

\* the 900 s interval: upload_task has begun a pass at 900 s, after its
\* 600 s wait timed out without a pass
C21_Witness ==
    /\ um.upload_interval = 900 /\ um.last_upload_time = 0
    /\ now = 900 /\ ut.pc = "pass"
    /\ last_call.op = "init" /\ event_bits = {}
    /\ hist.n_fail = 0


(***************************************************************************)
(* Properties of the wait computation.                                     *)
(***************************************************************************)

Max(a, b) == IF a > b THEN a ELSE b

\* C22: the wait upload_task computes before xEventGroupWaitBits is
\* portMAX_DELAY in real-time mode; in interval mode it is
\* max(0, upload_interval - elapsed) seconds, held to at most 600 seconds,
\* where elapsed is the time from last_upload_time to the instant the task
\* read the clock.
C22_WaitComputed ==
    [][ (ut.pc = "cfg" /\ ut'.pc = "wait")
          => ut'.wait_time =
               IF um.upload_interval = 0 THEN PORT_MAX_DELAY
               ELSE Min(Max(0, um.upload_interval
                                 - (ut.current_time - um.last_upload_time)),
                        MAX_WAIT_SECONDS) ]_vars


(***************************************************************************)
(* Properties of the CONFIG wake-up.                                       *)
(***************************************************************************)

\* C23: when xEventGroupWaitBits returns with CONFIG and without TRIGGER,
\* upload_task goes back to the top of its loop without touching the
\* schedule, upload_queue or the radio; from there it only reads the clock
\* and the configuration and blocks again, so a pass never begins on a
\* CONFIG-only wake-up.
C23_ConfigOnlyRecomputes ==
    /\ [][ /\ (ut.pc = "wait" /\ ut'.pc # "wait"
                   /\ "CONFIG" \in event_bits /\ "TRIGGER" \notin event_bits)
                => /\ ut'.pc = "top" /\ ut'.bits = {"CONFIG"}
                   /\ UNCHANGED <<um, upload_queue, wifi_connected, radio>>
           /\ (ut.pc = "top" /\ ut'.pc # "top") => ut'.pc = "cfg"
           /\ (ut.pc = "cfg" /\ ut'.pc # "cfg")
                => (ut'.pc = "wait" /\ UNCHANGED <<um, upload_queue>>) ]_vars
    /\ [](ut.pc = "pass" => ut.bits # {"CONFIG"})

\* upload_task is back at the top of its loop after a wake-up by the CONFIG
\* bit of a set_interval(300) call
C23_Witness ==
    /\ ut.pc = "top" /\ ut.bits = {"CONFIG"} /\ event_bits = {}
    /\ last_call.op = "set_interval" /\ last_call.ret = "ESP_OK"
    /\ um.upload_interval = 300


(***************************************************************************)
(* Properties of reinit_camera.                                            *)
(***************************************************************************)

C25_ResetAfterFailedRestore ==
    \A t \in Tasks : task[t].refused => task[t].reset


(***************************************************************************)
(* Properties of the allocations of detect_motion.                         *)
(***************************************************************************)

\* C26: a detect_motion call in which the allocation of the box array, of
\* the pixel-tracking buffers, of the label map, of the flood-fill queue or
\* of the JSON string failed has returned false, has queued nothing, and
\* holds none of the buffers it had acquired.
C26_AllocFailureReleasesAll ==
    (det.op = "detect" /\ det.failed # "none")
        => (~det.ret /\ det.held = {} /\ det.sent = "n/a")

\* the flood-fill queue could not be allocated for the component of the
\* blob frame, after the warm-up
C26_Witness ==
    /\ det.op = "detect" /\ det.failed = "bfs" /\ det.frame = "blob"
    /\ ~det.ret /\ det.held = {} /\ bg_model.initialized


(***************************************************************************)
(* Properties of the input checks of detect_motion.                        *)
(***************************************************************************)

\* the frame is not of the size the background model was built for
Mismatch(f) ==
    ~bg_model.null /\ (bg_model.width # f.width \/ bg_model.height # f.height)

\* C27: a detect_motion call with a null frame, or with a frame whose
\* dimensions differ from those of the background model, returns false and
\* leaves the background buffer, its dimensions, the initialized flag and
\* the warm-up counter as they were.
C27_BadInputRejected ==
    [][ \A name \in FrameNames, g \in BgAlloc :
          ((InvalidInput(FrameOf(name)) \/ Mismatch(FrameOf(name)))
             /\ detect_motion(name, g))
            => (~det'.ret /\ bg_model' = bg_model
                          /\ frame_counter' = frame_counter) ]_vars

\* C28: detect_motion writes the caller's timestamp slot exactly when it
\* reports motion; a call that returns "no motion" leaves the slot unchanged.
C28_StampIffMotion ==
    det.op = "detect" => (det.stamp <=> det.ret)

\* the scan entry of each revision: the instruction that asks for the lock
ScanEntry == {"A_scan", "B_scan", "P12_take", "P14_take"}

\* the scan step of task t that gives up at once: no lock, no driver call
SkipScan(t) ==
    /\ A_scan(t) \/ B_scan(t) \/ P12_take(t) \/ P14_take(t)
    /\ task'[t].scan = "busy"
    /\ task'[t].pc \in {"A_delay", "B_delay", "P12_delay", "P14_end"}
    /\ holder' = holder /\ hw' = hw /\ hw_unlocked' = hw_unlocked

C30_NeverSleepsWithMutex ==
    /\ ut.pc = "backoff" => config_mutex = "free"
    /\ last_call.op = "set_interval" => last_call.ret # "ESP_FAIL"
    /\ (last_call.op = "notify" /\ last_call.ret = "ESP_FAIL")
          => last_call.qret = "ESP_FAIL"

\* program points of upload_task inside a pass, before its outcome is booked
InPass == {"pass", "upload", "post"}

\* C31: every upload pass that was started leaves the pass either through a
\* successful upload (failed_attempts reset) or through the failure branch,
\* which increments failed_attempts and enters the backoff delay; a pass
\* abandoned because the radio could not be enabled or was not connected is
\* booked as a failure too, so no pass is followed by the next with no delay.
C31_FailedPassBacksOff ==
    [][ (ut.pc \in InPass /\ ut'.pc \notin InPass)
          => \/ ut'.pc = "radio" /\ um'.failed_attempts = 0
             \/ /\ ut'.pc = "backoff" /\ ut'.backoff_time > 0
                /\ um'.failed_attempts # um.failed_attempts ]_vars

\* program points of upload_task after the pass has read the link state
MidPass == {"upload", "post", "backoff", "radio"}

\* a step on which the WiFi driver is stopped
PowerOff == radio.started /\ ~radio'.started

\* C32: the radio is never powered off by one task while the other still
\* needs it: the scheduler's power-off at the end of a pass happens only
\* when the file-upload task is not transferring and no request is
\* enqueued, and the file-upload task's power-off after a file happens only
\* outside a scheduler pass.
C32_RadioNotPulled ==
    [][ /\ (PowerOff /\ ut.pc = "radio" /\ ut'.pc = "top")
              => (fu.pc \notin {"check", "send"} /\ upload_queue = 0)
        /\ (PowerOff /\ fu.pc = "send" /\ fu'.pc = "receive")
              => ut.pc \notin MidPass ]_vars

\* C33: an upload pass whose upload_all_files found no pending file is not
\* booked as a failure: the step that books it leaves failed_attempts as it
\* is and does not enter the backoff delay.
C33_EmptyPassNoFailure ==
    [][ (ut.pc = "post" /\ hist.empty /\ ut'.pc # "post")
          => (um'.failed_attempts = um.failed_attempts /\ ut'.pc # "backoff") ]_vars

\* C34: across any sequence of WiFi connected / disconnected notifications
\* the start-up branch of on_wifi_status_change runs at most once, so the
\* camera lock (cam_mux counts the locks created) and the camera worker task
\* (n_tasks) are created at most once; the file-upload queue and task and
\* the sensor-data queue and its consumer are created by the same branch,
\* once per lock.
C34_CreatedOnce ==
    cam_mux <= 1 /\ n_tasks <= 1

\* C35: whenever the background model is used for an update or a motion
\* decision its buffer is allocated (no call writes or reads through a
\* missing buffer) and holds width * height pixels of the frame's size; a
\* failed (re)allocation never leaves a missing buffer together with a true
\* initialized flag, stale dimensions or a stale warm-up count.
C35_ModelUsable ==
    /\ ~det.fault
    /\ ~bg_model.null => Len(bg_model.px) = bg_model.width * bg_model.height
    /\ bg_model.null => /\ ~bg_model.initialized
                        /\ bg_model.width = 0 /\ bg_model.height = 0
                        /\ frame_counter = 0

\* C36: every box in the result detect_motion reports, after merging and
\* all filters, has an area no larger than MAX_BOX_AREA and no smaller than
\* MIN_BOX_AREA, and touches no frame edge.
C36_ReportedBoxesInRange ==
    merge.pc = "filtered" =>
        \A k \in 1..Len(merge.out) :
            LET b == merge.out[k]
            IN  /\ Area(b) <= MAX_BOX_AREA
                /\ Area(b) >= MIN_BOX_AREA
                /\ b.x_min # 0 /\ b.y_min # 0
                /\ b.x_max # BigFrame.width - 1
                /\ b.y_max # BigFrame.height - 1

(***************************************************************************)
(* Properties of the component labelling.                                  *)
(***************************************************************************)

\* two different pixels of a frame touch, diagonals included
Adjacent8(i, j, width) ==
    /\ i # j
    /\ Abs((i % width) - (j % width)) <= 1
    /\ Abs((i \div width) - (j \div width)) <= 1

\* the pixels of S that chains of touching pixels of S join to those of C
RECURSIVE Reach(_, _, _)
Reach(C, S, width) ==
    LET D == C \cup {j \in S : \E i \in C : Adjacent8(i, j, width)}
    IN  IF D = C THEN C ELSE Reach(D, S, width)

\* the 8-connected components of a pixel set
ComponentsOf8(S, width) == {Reach({i}, S, width) : i \in S}

\* b is the bounding box of the pixel set c
BoundingExtremes(b, c, width) ==
    /\ \A i \in c : /\ b.x_min <= i % width /\ i % width <= b.x_max
                    /\ b.y_min <= i \div width /\ i \div width <= b.y_max
    /\ \E i \in c : i % width = b.x_min
    /\ \E i \in c : i % width = b.x_max
    /\ \E i \in c : i \div width = b.y_min
    /\ \E i \in c : i \div width = b.y_max

\* the components large enough to be kept
KeptComponents(S, width) ==
    {c \in ComponentsOf8(S, width) : Cardinality(c) >= MIN_COMPONENT_PIXELS}

\* C37: when the component cap is not reached, the boxes handed to the
\* filter stage are exactly the bounding extremes of the 8-connected
\* components of the changed-pixel set that have at least
\* MIN_COMPONENT_PIXELS pixels: one box per such component, none for smaller
\* ones.
C37_BoxesAreComponents ==
    (merge.pc = "labelled"
        /\ Cardinality(merge.changed) >= MIN_COMPONENT_PIXELS)
      => LET kept == KeptComponents(merge.changed, LabelFrame.width)
             n == Len(merge.boxes)
         IN  /\ n = Cardinality(kept)
             /\ n + 1 < MAX_COMPONENTS
             /\ \E f \in [1..n -> kept] :
                   /\ \A k, l \in 1..n : f[k] = f[l] => k = l
                   /\ \A k \in 1..n :
                         BoundingExtremes(merge.boxes[k], f[k], LabelFrame.width)

\* both blocks are kept (the first only through its diagonal pixel), the
\* specks are dropped
C37_Witness ==
    /\ merge.pc = "labelled"
    /\ merge.changed = Pieces[1] \cup Pieces[2] \cup Pieces[3]
                          \cup Pieces[5] \cup Pieces[6]
    /\ merge.boxes = <<[x_min |-> 0, y_min |-> 0, x_max |-> 2, y_max |-> 7],
                       [x_min |-> 6, y_min |-> 1, x_max |-> 8, y_max |-> 7]>>

\* C39: within one detect_motion call each changed pixel is visited by at
\* most one flood fill: the pixels of a discarded component are not filled
\* again from a later seed of the same call.
C39_FilledOnce ==
    merge.pc = "labelled" =>
        \A i \in merge.changed :
            Cardinality({k \in 1..Len(merge.fills) : i \in merge.fills[k]}) <= 1

\* C38: the upload scheduler is notified of a captured image only after the
\* image file has been completely written and closed; when opening or
\* writing the file fails, no notification is sent and no partially written
\* file is left in the upload directory.
C38_NotifyAfterCompleteFile ==
    \A t \in Tasks :
        /\ task[t].notified => task[t].file = "complete"
        /\ task[t].file # "partial"

(***************************************************************************)
(* Specifications.                                                         *)
(***************************************************************************)

InitCam ==
    /\ variant \in Variants
    /\ CamIdle
    /\ UpIdle
    /\ DetIdle
    /\ MergeIdle

NextCam ==
    \/ app_main
    \/ on_wifi_connected
    \/ on_wifi_disconnected
    \/ \E t \in Tasks : camera_worker_task_A(t)
    \/ \E t \in Tasks : camera_worker_task_B(t)
    \/ \E t \in Tasks : motion_detection_task_P12(t)
    \/ \E t \in Tasks : motion_detection_task_P14(t)

SpecCam == InitCam /\ [][NextCam]_vars


InitUpload ==
    /\ variant = "A"
    /\ CamIdle
    /\ UpIdle
    /\ DetIdle
    /\ MergeIdle

NextUpload ==
    \/ clock_tick
    \/ wifi_event
    \/ file_upload_task
    \/ \E i \in Intervals : upload_manager_init(i)
    \/ \E i \in Intervals : upload_manager_set_interval(i)
    \/ upload_manager_upload_now
    \/ \E f \in Files : upload_manager_notify_new_file(f)
    \/ upload_task(MaxFailed)

SpecUpload == InitUpload /\ [][NextUpload]_vars

\* the scheduler in real-time mode: passes are started by upload_now() only,
\* and may fail MaxAttempts times in a row
NextBackoff ==
    \/ wifi_event
    \/ upload_manager_init(0)
    \/ upload_manager_upload_now
    \/ upload_task_events(MaxAttempts)

SpecBackoff == InitUpload /\ [][NextBackoff]_vars


InitBg ==
    /\ variant = "A"
    /\ CamIdle
    /\ UpIdle
    /\ DetIdle
    /\ MergeIdle

NextBg ==
    \/ start_tasks
    \/ log_sensor_data_task
    \/ \E name \in FrameNames, g \in BgAlloc : detect_motion(name, g)
    \/ \E ok \in BOOLEAN : initialize_background_model(9, 8, ok)
    \/ cleanup_background_model

SpecBg == InitBg /\ [][NextBg]_vars

InitMerge ==
    /\ variant = "A"
    /\ CamIdle
    /\ UpIdle
    /\ DetIdle
    /\ merge \in {[pc |-> "call", boxes |-> l, out |-> <<>>, pass |-> 1,
                  changed |-> {}, fills |-> <<>>] :
                     l \in ListsOf(GridBoxes, MaxBoxes)}

NextMerge ==
    \/ filter_and_merge_boxes
    \/ merge_again

SpecMerge == InitMerge /\ [][NextMerge]_vars


\* the detector fed with 4x4 frames
NextBlock ==
    \/ start_tasks
    \/ \E name \in SmallFrames, g \in BgAlloc : detect_motion(name, g)
    \/ \E ok \in BOOLEAN : initialize_background_model(4, 4, ok)
    \/ cleanup_background_model

SpecBlock == InitBg /\ [][NextBlock]_vars


\* the edge filter applied to lists of boxes
MaxEdgeBoxes == 3

InitEdge ==
    /\ variant = "A"
    /\ CamIdle
    /\ UpIdle
    /\ DetIdle
    /\ merge \in {[pc |-> "edge_call", boxes |-> l, out |-> <<>>, pass |-> 1,
                  changed |-> {}, fills |-> <<>>] :
                     l \in ListsOf(EdgeBoxes, MaxEdgeBoxes)}

NextEdge == edge_filter

SpecEdge == InitEdge /\ [][NextEdge]_vars


\* the scheduler and its triggers, in real-time mode and with an interval of
\* 300 seconds, with its tasks scheduled: upload_task and file_upload_task
\* are FreeRTOS tasks, each runs whenever it is ready
TriggerIntervals == {0, 300}

NextTrigger ==
    \/ clock_tick
    \/ wifi_event
    \/ file_upload_task
    \/ \E i \in TriggerIntervals : upload_manager_init(i)
    \/ \E i \in TriggerIntervals : upload_manager_set_interval(i)
    \/ upload_manager_upload_now
    \/ upload_task(MaxFailed)

SpecTrigger ==
    /\ InitUpload
    /\ [][NextTrigger]_vars
    /\ WF_vars(upload_task(MaxFailed))
    /\ WF_vars(file_upload_task)


\* the detector, the sensor-data queue and its consumer when the start-up
\* code runs on every WiFi connection (on_wifi_status_change, part_011:14-44):
\* create_data_log_queue is called again after a reconnect
QueueFrames == {"flat", "blob"}

NextQueue ==
    \/ create_data_log_queue
    \/ log_sensor_data_task
    \/ \E name \in QueueFrames, g \in BgAlloc : detect_motion(name, g)

SpecQueue == InitBg /\ [][NextQueue]_vars


\* upload_task in interval mode with the interval given at init, under fair
\* scheduling and a clock that keeps running; upload_now may or may not be
\* called
LongIntervals == {300, 900}

NextInterval ==
    \/ clock_tick_long
    \/ wifi_event
    \/ file_upload_task
    \/ \E i \in LongIntervals : upload_manager_init(i)
    \/ upload_manager_upload_now
    \/ upload_task(MaxFailed)

SpecInterval ==
    /\ InitUpload
    /\ [][NextInterval]_vars
    /\ WF_vars(upload_task(MaxFailed))
    /\ WF_vars(file_upload_task)
    /\ WF_vars(clock_tick_long)

\* the scheduler in real-time mode with the file-upload task that serves
\* its queue: who switches the radio on and off, and when
NextRadio ==
    \/ upload_manager_init(0)
    \/ upload_manager_upload_now
    \/ upload_task_events(MaxFailed)
    \/ file_upload_task_steps

SpecRadio == InitUpload /\ [][NextRadio]_vars

\* the filter stage of detect_motion on lists of boxes in a QVGA frame
MaxBigBoxes == 3

InitFilter ==
    /\ variant = "A"
    /\ CamIdle
    /\ UpIdle
    /\ DetIdle
    /\ merge \in {[pc |-> "filter_call", boxes |-> l, out |-> <<>>, pass |-> 1,
                  changed |-> {}, fills |-> <<>>] :
                     l \in ListsOf(BigBoxes, MaxBigBoxes)}

NextFilter == box_filters

SpecFilter == InitFilter /\ [][NextFilter]_vars

\* the labelling stage of detect_motion on changed-pixel sets of a 9x8
\* frame
InitLabel ==
    /\ variant = "A"
    /\ CamIdle
    /\ UpIdle
    /\ DetIdle
    /\ merge \in {[pc |-> "label_call", boxes |-> <<>>, out |-> <<>>, pass |-> 1,
                  changed |-> S, fills |-> <<>>] : S \in ChangedSets}

NextLabel == label_components

SpecLabel == InitLabel /\ [][NextLabel]_vars

====
